---- MODULE Spec2Model ----
(***************************************************************************)
(* Strategy & Risk Engine of the Solana trading bot: the Portfolio Store   *)
(* (state.js), the Risk Manager (risk.js), the scan cycle and the          *)
(* position-review cycle (index.js) and the short PnL (drift.js).          *)
(*                                                                         *)
(* Numbers.  Money is an integer count of 1/10000 USDC, the grain of the   *)
(* store's toFixed(4); a size is rounded to 1/100 USDC, i.e. to a multiple *)
(* of 100 units.  Prices are integers of an arbitrary price unit; a        *)
(* stop-loss / take-profit is kept in hundredths of that unit, so that     *)
(* entry * 0.85 is the exact integer entry * 85.  IEEE NaN and +Infinity,  *)
(* which the code produces when it divides by an entry price of 0, are the *)
(* two values NaN and Infinity with JavaScript's rules for them.           *)
(*                                                                         *)
(* Time.  The code reads the clock only to stamp openedAt and to compare   *)
(* Date.now() - openedAt with the time-stop horizon (timeStopHours, 24h).  *)
(* A position's openedAt is kept relative to the present: 0 while it lies   *)
(* no more than the horizon back, -1 once it lies further back.  Time      *)
(* passing moves the oldest open positions from 0 to -1; the store keeps   *)
(* its positions in the order they were opened.                            *)
(***************************************************************************)
EXTENDS Integers, Sequences, FiniteSets, TLC

VARIABLES
    state,   \* state.js `state`: the Portfolio Store
    scan,    \* scanLoop: where a scan cycle is suspended, and its locals
    scan2,   \* scanLoop: a second scan cycle, started by the timer while the
             \* first is still suspended
    rev,     \* positionLoop: where a review cycle is suspended, and its locals
    rev2,    \* positionLoop: a second review cycle, started by the timer while
             \* the first is still suspended
    grid,    \* state.grid: the grid strategy's part of the store
    gridc,   \* gridLoop / checkGrid: where the grid check cycle is suspended
    gridc2,  \* gridLoop: a second grid check cycle, started by the timer while
             \* the first is still suspended
    cfg,     \* config.json: the drift section read by scanLoop
    env,     \* what the collaborators of this run can answer
    ret      \* the last direct call of a Risk Manager function and its result

vars == <<state, scan, scan2, rev, rev2, grid, gridc, gridc2, cfg, env, ret>>

----------------------------------------------------------------------------
\* config.json (risk, capital), in the units above

Unit == 10000
startingCapital == 100
maxPositionSize == 50
maxPositions == 3
stopLossPercent == -15
takeProfitPercent == 30
portfolioKillSwitchPercent == -30
dustFloor == 5
meanReversionSL == 92
meanReversionTP == 110
driftStopLossPercent == 8
driftTakeProfitPercent == 10
defaultMaxShorts == 3

\* bound of the model: positions opened in one run
MaxTrades == 2

----------------------------------------------------------------------------
\* IEEE values outside the finite numbers

NaN == -2000000001
Infinity == 2000000001

IsFinite(x) == x # NaN /\ x # Infinity

\* a + b
Add(a, b) ==
    IF a = NaN \/ b = NaN THEN NaN
    ELSE IF a = Infinity \/ b = Infinity THEN Infinity
    ELSE a + b

\* a - b, b finite
Sub(a, b) ==
    IF a = NaN THEN NaN
    ELSE IF a = Infinity THEN Infinity
    ELSE a - b

\* a < b, a <= b: every comparison with NaN is false
Lt(a, b) ==
    IF a = NaN \/ b = NaN THEN FALSE
    ELSE IF a = Infinity THEN FALSE
    ELSE IF b = Infinity THEN TRUE
    ELSE a < b

Le(a, b) ==
    IF a = NaN \/ b = NaN THEN FALSE
    ELSE IF a = Infinity THEN b = Infinity
    ELSE IF b = Infinity THEN TRUE
    ELSE a <= b

\* Math.min(a, b), a finite
MathMin(a, b) ==
    IF b = NaN THEN NaN
    ELSE IF b = Infinity THEN a
    ELSE IF a <= b THEN a ELSE b

\* !x for a number: 0 and NaN are falsy
Falsy(x) == x = 0 \/ x = NaN

Min(a, b) == IF a <= b THEN a ELSE b

\* num/den (den > 0) rounded to the nearest integer, halves away from zero:
\* Number(x.toFixed(k)) on a value counted in units of 10^-k
RoundDiv(num, den) ==
    IF num >= 0 THEN (2 * num + den) \div (2 * den)
    ELSE -((2 * (-num) + den) \div (2 * den))

\* spent * (price / entry): the quotient is Infinity or NaN when entry is 0
MulRatio(spent, price, entry) ==
    IF entry = 0 THEN (IF price = 0 THEN NaN ELSE Infinity)
    ELSE RoundDiv(spent * price, entry)

----------------------------------------------------------------------------
\* state.js: the Portfolio Store

DEFAULT_STATE ==
    [ capitalUsdc         |-> startingCapital * Unit,
      initialCapital      |-> startingCapital * Unit,
      positions           |-> << >>,
      closedTrades        |-> << >>,
      totalPnl            |-> 0,
      tradeCount          |-> 0,
      killSwitchTriggered |-> FALSE ]

\* The state file as loadState() finds it: exists is fs.existsSync, parses
\* tells whether readFileSync and JSON.parse return, value is what JSON.parse
\* returns.  A value may lack fields of a state.

\* a loadState that takes whatever JSON.parse returns
loadStateVerbatim(file) ==
    IF file.exists /\ file.parses
    THEN [state |-> file.value, file |-> file]
    ELSE [state |-> DEFAULT_STATE,
          file |-> [exists |-> TRUE, parses |-> TRUE, value |-> DEFAULT_STATE]]

\* loadState(): the state it returns and the file it leaves.  The log line
\* after JSON.parse reads state.positions.length and state.totalPnl.toFixed
\* inside the try, so a value without them throws into the catch, which
\* starts fresh as for an absent file; the fresh state goes through saveState()
loadState(file) ==
    IF /\ file.exists
       /\ file.parses
       /\ "positions" \in DOMAIN file.value
       /\ "totalPnl" \in DOMAIN file.value
    THEN [state |-> file.value, file |-> file]
    ELSE [state |-> DEFAULT_STATE,
          file |-> [exists |-> TRUE, parses |-> TRUE, value |-> DEFAULT_STATE]]

\* an addPosition that takes the position's cost out of capitalUsdc itself
addPositionDeducting(st, pos) ==
    [st EXCEPT !.positions = Append(@, pos), !.tradeCount = @ + 1,
               !.capitalUsdc = Sub(@, pos.usdcSpent)]

addPosition(st, pos) ==
    [st EXCEPT !.positions = Append(@, pos), !.tradeCount = @ + 1]

\* a deductCapital whose write is lost
deductCapitalLost(st, amount) ==
    st

deductCapital(st, amount) ==
    [st EXCEPT !.capitalUsdc = Sub(@, amount)]

triggerKillSwitch(st) ==
    [st EXCEPT !.killSwitchTriggered = TRUE]

\* positions.findIndex(p => p.id === posId); 0 stands for -1
findIndex(positions, posId) ==
    IF \E i \in 1..Len(positions) : positions[i].id = posId
    THEN CHOOSE i \in 1..Len(positions) :
            /\ positions[i].id = posId
            /\ \A j \in 1..(i - 1) : positions[j].id # posId
    ELSE 0

\* positions.splice(idx, 1)
splice(positions, idx) ==
    [i \in 1..(Len(positions) - 1) |->
        IF i < idx THEN positions[i] ELSE positions[i + 1]]

closedRecord(pos, exitPrice, usdcReceived, reason) ==
    [ id           |-> pos.id,
      usdcSpent    |-> pos.usdcSpent,
      exitPrice    |-> exitPrice,
      usdcReceived |-> usdcReceived,
      pnl          |-> Sub(usdcReceived, pos.usdcSpent),
      reason       |-> reason ]

\* a close that credits the pnl instead of the proceeds
closePositionCreditsPnl(st, posId, exitPrice, usdcReceived, reason) ==
    LET idx == findIndex(st.positions, posId) IN
    IF idx = 0 THEN st
    ELSE LET pos == st.positions[idx]
             pnl == Sub(usdcReceived, pos.usdcSpent)
         IN [st EXCEPT
               !.positions    = splice(@, idx),
               !.closedTrades = Append(@, closedRecord(pos, exitPrice, usdcReceived, reason)),
               !.totalPnl     = Add(@, pnl),
               !.capitalUsdc  = Add(@, pnl)]

\* a close without the `idx === -1` guard: splice(-1, 1) takes the last
\* open position
closePositionUnguarded(st, posId, exitPrice, usdcReceived, reason) ==
    LET found == findIndex(st.positions, posId)
        idx == IF found = 0 THEN Len(st.positions) ELSE found
    IN
    IF idx = 0 THEN st
    ELSE LET pos == st.positions[idx]
             pnl == Sub(usdcReceived, pos.usdcSpent)
         IN [st EXCEPT
               !.positions    = splice(@, idx),
               !.closedTrades = Append(@, closedRecord(pos, exitPrice, usdcReceived, reason)),
               !.totalPnl     = Add(@, pnl),
               !.capitalUsdc  = Add(@, usdcReceived)]

closePosition(st, posId, exitPrice, usdcReceived, reason) ==
    LET idx == findIndex(st.positions, posId) IN
    IF idx = 0 THEN st
    ELSE LET pos == st.positions[idx]
             pnl == Sub(usdcReceived, pos.usdcSpent)
         IN [st EXCEPT
               !.positions    = splice(@, idx),
               !.closedTrades = Append(@, closedRecord(pos, exitPrice, usdcReceived, reason)),
               !.totalPnl     = Add(@, pnl),
               !.capitalUsdc  = Add(@, usdcReceived)]

----------------------------------------------------------------------------
\* risk.js: the Risk Manager

\* (state.totalPnl / state.initialCapital) * 100 <= portfolioKillSwitchPercent,
\* initialCapital > 0
killThresholdReached(st) ==
    /\ st.totalPnl # NaN
    /\ st.totalPnl # Infinity
    /\ st.totalPnl * 100 <= portfolioKillSwitchPercent * st.initialCapital

\* a gate whose kill switch follows the current PnL instead of latching
canOpenPositionUnlatched(st) ==
    IF killThresholdReached(st)
    THEN [allowed |-> FALSE, reason |-> "KILL_SWITCH_TRIGGERED", maxSize |-> 0,
          st |-> triggerKillSwitch(st)]
    ELSE IF Len(st.positions) >= maxPositions
    THEN [allowed |-> FALSE, reason |-> "MAX_POSITIONS", maxSize |-> 0,
          st |-> [st EXCEPT !.killSwitchTriggered = FALSE]]
    ELSE IF Lt(st.capitalUsdc, dustFloor * Unit)
    THEN [allowed |-> FALSE, reason |-> "INSUFFICIENT_CAPITAL", maxSize |-> 0,
          st |-> [st EXCEPT !.killSwitchTriggered = FALSE]]
    ELSE [allowed |-> TRUE, reason |-> "",
          maxSize |-> MathMin(maxPositionSize * Unit, st.capitalUsdc),
          st |-> [st EXCEPT !.killSwitchTriggered = FALSE]]

\* a gate that looks at the capital before the number of open positions
canOpenPositionCapitalFirst(st) ==
    IF st.killSwitchTriggered
    THEN [allowed |-> FALSE, reason |-> "KILL_SWITCH_ACTIVE", maxSize |-> 0, st |-> st]
    ELSE IF killThresholdReached(st)
    THEN [allowed |-> FALSE, reason |-> "KILL_SWITCH_TRIGGERED", maxSize |-> 0,
          st |-> triggerKillSwitch(st)]
    ELSE IF Lt(st.capitalUsdc, dustFloor * Unit)
    THEN [allowed |-> FALSE, reason |-> "INSUFFICIENT_CAPITAL", maxSize |-> 0, st |-> st]
    ELSE IF Len(st.positions) >= maxPositions
    THEN [allowed |-> FALSE, reason |-> "MAX_POSITIONS", maxSize |-> 0, st |-> st]
    ELSE [allowed |-> TRUE, reason |-> "",
          maxSize |-> MathMin(maxPositionSize * Unit, st.capitalUsdc), st |-> st]

\* canOpenPosition(): its result and the store it leaves (triggerKillSwitch
\* is its one side effect).  maxSize 0 stands for the absent field of a denial.
canOpenPosition(st) ==
    IF st.killSwitchTriggered
    THEN [allowed |-> FALSE, reason |-> "KILL_SWITCH_ACTIVE", maxSize |-> 0, st |-> st]
    ELSE IF killThresholdReached(st)
    THEN [allowed |-> FALSE, reason |-> "KILL_SWITCH_TRIGGERED", maxSize |-> 0,
          st |-> triggerKillSwitch(st)]
    ELSE IF Len(st.positions) >= maxPositions
    THEN [allowed |-> FALSE, reason |-> "MAX_POSITIONS", maxSize |-> 0, st |-> st]
    ELSE IF Lt(st.capitalUsdc, dustFloor * Unit)
    THEN [allowed |-> FALSE, reason |-> "INSUFFICIENT_CAPITAL", maxSize |-> 0, st |-> st]
    ELSE [allowed |-> TRUE, reason |-> "",
          maxSize |-> MathMin(maxPositionSize * Unit, st.capitalUsdc), st |-> st]

\* a scale factor without its 0.5 base: maxSize * (score / 100)
scaledSizeNoBase(maxSize, score) ==
    RoundDiv(maxSize * score, 100 * 100) * 100

\* maxSize * (0.5 + (score / 100) * 0.5), toFixed(2), in units
scaledSize(maxSize, score) ==
    RoundDiv(maxSize * (100 + score), 200 * 100) * 100

\* a sizing without the clamp to maxSize
calculatePositionSizeUnclamped(st, score) ==
    LET gate == canOpenPosition(st) IN
    [ size |-> IF Falsy(gate.maxSize) THEN 0 ELSE scaledSize(gate.maxSize, score),
      st   |-> gate.st ]

\* calculatePositionSize(signal): the size, and the store canOpenPosition leaves
calculatePositionSize(st, score) ==
    LET gate == canOpenPosition(st) IN
    [ size |-> IF Falsy(gate.maxSize) THEN 0
               ELSE MathMin(gate.maxSize, scaledSize(gate.maxSize, score)),
      st   |-> gate.st ]

\* levels that follow the configured percentages for every strategy
calculateSLTPConfigured(entryPrice, strategy) ==
    [stopLoss   |-> entryPrice * (100 + stopLossPercent),
     takeProfit |-> entryPrice * (100 + takeProfitPercent)]

\* calculateSLTP(entryPrice, strategy), in hundredths of the price unit
calculateSLTP(entryPrice, strategy) ==
    IF strategy = "meanReversion"
    THEN [stopLoss |-> entryPrice * meanReversionSL, takeProfit |-> entryPrice * meanReversionTP]
    ELSE [stopLoss   |-> entryPrice * (100 + stopLossPercent),
          takeProfit |-> entryPrice * (100 + takeProfitPercent)]

\* a check that looks at the take-profit level first
checkPositionTakeProfitFirst(position, currentPrice) ==
    IF currentPrice * 100 >= position.takeProfit
    THEN [shouldClose |-> TRUE, reason |-> "TAKE_PROFIT"]
    ELSE IF currentPrice * 100 <= position.stopLoss
    THEN [shouldClose |-> TRUE, reason |-> "STOP_LOSS"]
    ELSE [shouldClose |-> FALSE, reason |-> ""]

\* checkPosition(position, currentPrice)
checkPosition(position, currentPrice) ==
    IF currentPrice * 100 <= position.stopLoss
    THEN [shouldClose |-> TRUE, reason |-> "STOP_LOSS"]
    ELSE IF currentPrice * 100 >= position.takeProfit
    THEN [shouldClose |-> TRUE, reason |-> "TAKE_PROFIT"]
    ELSE [shouldClose |-> FALSE, reason |-> ""]

\* hasPosition(mint)
hasPosition(st, mint) ==
    \E i \in 1..Len(st.positions) : st.positions[i].mint = mint

\* a pnl taken the long way round: profit when the price goes up
getLongPnl(shortPos, currentPrice) ==
    RoundDiv((currentPrice - shortPos.entryPrice) * shortPos.usdcSpent, shortPos.entryPrice)

\* drift.js getShortPnl(shortPos, currentPrice).pnl, entryPrice > 0
getShortPnl(shortPos, currentPrice) ==
    RoundDiv((shortPos.entryPrice - currentPrice) * shortPos.usdcSpent, shortPos.entryPrice)

\* drift.js getShortPnl(shortPos, currentPrice).pnlPercent in hundredths of a
\* percent, entryPrice > 0
getShortPnlPercent(shortPos, currentPrice) ==
    RoundDiv((shortPos.entryPrice - currentPrice) * 100 * 100, shortPos.entryPrice)

----------------------------------------------------------------------------
\* signals.js: the scorers' last line and detectSignals.  A raw score is kept
\* in halves of a point, or is NaN.

\* analyzeMomentum / analyzeMeanReversion: Math.max(0, Math.min(100, Math.round(score)))
maxScore == 100

\* the threshold of detectSignals
signalThreshold == 35

\* Math.max(0, Math.min(100, Math.round(score))): Math.round takes a half up,
\* and Math.min / Math.max return NaN for NaN
clampScore(score) ==
    IF score = NaN THEN NaN
    ELSE LET rounded == (score + 1) \div 2 IN
         IF rounded < 0 THEN 0 ELSE IF rounded > maxScore THEN maxScore ELSE rounded

\* the for loop over the candidates: per token the momentum result, then the
\* mean-reversion result, each pushed when its score is >= 35 (false for NaN)
RECURSIVE allSignals(_)
allSignals(candidates) ==
    IF candidates = << >> THEN << >>
    ELSE LET token == Head(candidates)
             mom == [mint |-> token.mint, score |-> clampScore(token.momentum),
                     strategy |-> "momentum"]
             mr == [mint |-> token.mint, score |-> clampScore(token.meanReversion),
                    strategy |-> "meanReversion"]
         IN
         (IF mom.score # NaN /\ mom.score >= signalThreshold THEN <<mom>> ELSE << >>)
         \o (IF mr.score # NaN /\ mr.score >= signalThreshold THEN <<mr>> ELSE << >>)
         \o allSignals(Tail(candidates))

\* allSignals.sort((a, b) => b.score - a.score): stable, highest score first
RECURSIVE sortByScore(_)
sortByScore(signals) ==
    IF signals = << >> THEN << >>
    ELSE LET rest == sortByScore(SubSeq(signals, 1, Len(signals) - 1))
             last == signals[Len(signals)]
             IsBefore(x) == x.score >= last.score
             IsAfter(x) == x.score < last.score
         IN
         SelectSeq(rest, IsBefore) \o <<last>> \o SelectSeq(rest, IsAfter)

\* the loop with the Set `seen`: the first entry of every mint is kept
RECURSIVE dedupe(_, _)
dedupe(signals, seen) ==
    IF signals = << >> THEN << >>
    ELSE IF Head(signals).mint \in seen THEN dedupe(Tail(signals), seen)
    ELSE <<Head(signals)>> \o dedupe(Tail(signals), seen \cup {Head(signals).mint})

\* a detectSignals that leaves allSignals in the order of the pushes
detectSignalsUnsorted(candidates) ==
    dedupe(allSignals(candidates), {})

\* detectSignals(candidates)
detectSignals(candidates) ==
    dedupe(sortByScore(allSignals(candidates)), {})


\* The rolling price history (priceHistory): for every mint its samples
\* [price, ts], oldest first.  Time is counted in half days.

\* HISTORY_WINDOW_MS, 24 hours
historyWindow == 2

\* recordPrice(mint, price) at time now: the sample is pushed, then samples
\* older than the window are shifted off the front
RECURSIVE trimOld(_, _)
trimOld(hist, cutoff) ==
    IF hist # << >> /\ Head(hist).ts < cutoff THEN trimOld(Tail(hist), cutoff)
    ELSE hist

recordPrice(history, mint, price, now) ==
    [history EXCEPT ![mint] = trimOld(Append(@, [price |-> price, ts |-> now]),
                                      now - historyWindow)]

\* what detectSignals(candidates) does to the price history: for every
\* candidate recordPrice is called in the loop of detectSignals and once more
\* at the top of analyzeMeanReversion
RECURSIVE recordPrices(_, _, _)
recordPrices(history, candidates, now) ==
    IF candidates = << >> THEN history
    ELSE LET token == Head(candidates)
             inLoop == recordPrice(history, token.mint, token.price, now)
             inMeanReversion == recordPrice(inLoop, token.mint, token.price, now)
         IN recordPrices(inMeanReversion, Tail(candidates), now)

----------------------------------------------------------------------------
\* what the collaborators can answer: env holds the answers of one run
\*   mints, strategies, candidatePrices: the signals detectSignals can return
\*       (normalizePair: price = parseFloat(pair.priceUsd || 0))
\*   trends: getMarketTrend's labels
\*   reviewPrices: getTokenPrice's prices (parseFloat(sorted[0].priceUsd || 0))
\*   maxTrades: the number of buys and short-opens that can succeed

Mints == {"A", "B"}
Strategies == {"momentum", "meanReversion"}
CandidatePrices == {100}
SignalScores == {80}
\* uptrend is read nowhere but in `trend.trend === 'downtrend'`, as neutral is
Trends == {"downtrend", "neutral"}
ReviewPrices == {0, 100, 200}
\* openShort: result.entryPrice
ShortEntryPrices == {100}
\* Math.min(maxShortSize || 30, 20 + Math.random() * 10)
ShortSizes == {25 * Unit}
\* executeSell: result.usdcReceived; 0 is falsy and selects the price-proportional value
SellProceeds == {0}
NoPrice == -1

Signal(e) ==
    [mint : e.mints, price : e.candidatePrices, score : SignalScores, strategy : e.strategies]

\* detectSignals' results: one entry per mint, highest score first
SignalLists(e) ==
    { sigs \in UNION {[1..n -> Signal(e)] : n \in 0..Cardinality(e.mints)} :
        /\ \A i, j \in 1..Len(sigs) : i # j => sigs[i].mint # sigs[j].mint
        /\ \A i \in 1..(Len(sigs) - 1) : sigs[i].score >= sigs[i + 1].score }

----------------------------------------------------------------------------
\* grid.js: the grid strategy.  A grid level is kept in hundredths of the
\* price unit, so that basePrice * (1 + 0.02 * i) is the integer
\* basePrice * (100 + 2 * i).

\* gridConfig defaults
spreadPercent == 2
gridLevelCount == 5
capitalPerLevel == 5
gridMaxCapital == 30
maxGridTokens == 3

\* the levels in the order calculateGridLevels pushes them:
\* base, above 1, below 1, above 2, below 2, ...
gridPushes(basePrice, spreadPct, levels) ==
    [k \in 1..(2 * levels + 1) |->
        IF k = 1 THEN basePrice * 100
        ELSE IF k % 2 = 0 THEN basePrice * (100 + spreadPct * (k \div 2))
        ELSE basePrice * (100 - spreadPct * (k \div 2))]

\* Array.prototype.sort((a, b) => a - b) on numbers: x put into a sorted sequence
RECURSIVE insertSorted(_, _)
insertSorted(sorted, x) ==
    IF sorted = << >> THEN <<x>>
    ELSE IF x < Head(sorted) THEN <<x>> \o sorted
    ELSE <<Head(sorted)>> \o insertSorted(Tail(sorted), x)

RECURSIVE sortAscending(_)
sortAscending(seq) ==
    IF seq = << >> THEN << >>
    ELSE insertSorted(sortAscending(SubSeq(seq, 1, Len(seq) - 1)), seq[Len(seq)])

\* the levels left in push order
calculateGridLevelsUnsorted(basePrice, spreadPct, levels) ==
    gridPushes(basePrice, spreadPct, levels)

\* calculateGridLevels(basePrice, spreadPct, levels)
calculateGridLevels(basePrice, spreadPct, levels) ==
    sortAscending(gridPushes(basePrice, spreadPct, levels))

\* state.grid as initGridState() creates it
NoGrid == [tokens |-> << >>, totalPnl |-> 0, totalTrades |-> 0, capitalAllocated |-> 0]

\* todo: the active mints the for loop of gridLoop has still to check, the
\* current one first; i: the index of the sell loop (1-based); buy: the
\* filled buy `const buy = tokenGrid.filledBuys[i]` read before executeSell
GridIdle ==
    [pc |-> "idle", todo |-> << >>, currentPrice |-> 0, prevPrice |-> 0, i |-> 0,
     buy |-> [level |-> 0, sellLevel |-> 0, usdcSpent |-> 0],
     buyLevel |-> 0, sellLevel |-> 0]

\* the place of grid.tokens[mint] among the keys of grid.tokens, 0 if absent
tokenIndex(g, mint) ==
    IF \E k \in 1..Len(g.tokens) : g.tokens[k].mint = mint
    THEN CHOOSE k \in 1..Len(g.tokens) : g.tokens[k].mint = mint
    ELSE 0

\* a setupGrid that does not look at the capital left
setupGridUnchecked(g, mint, currentPrice) ==
    LET k == tokenIndex(g, mint)
        tokenGrid ==
            [ mint |-> mint, basePrice |-> currentPrice,
              gridLevels |-> calculateGridLevels(currentPrice, spreadPercent, cfg.levels),
              filledBuys |-> << >>, lastPrice |-> currentPrice, active |-> TRUE,
              capitalPerLevel |-> capitalPerLevel * Unit, pnl |-> 0, trades |-> 0 ]
    IN
    [g EXCEPT !.tokens = IF k = 0 THEN Append(@, tokenGrid)
                         ELSE [@ EXCEPT ![k] = tokenGrid],
              !.capitalAllocated = @ + capitalPerLevel * cfg.levels * Unit]

\* setupGrid(mint, symbol, currentPrice): refused (null) when the notional of
\* all buy levels does not fit into what is left of maxCapital
setupGrid(g, mint, currentPrice) ==
    LET totalCapitalNeeded == capitalPerLevel * cfg.levels * Unit
        availableForGrid == gridMaxCapital * Unit - g.capitalAllocated
        k == tokenIndex(g, mint)
        tokenGrid ==
            [ mint |-> mint, basePrice |-> currentPrice,
              gridLevels |-> calculateGridLevels(currentPrice, spreadPercent, cfg.levels),
              filledBuys |-> << >>, lastPrice |-> currentPrice, active |-> TRUE,
              capitalPerLevel |-> capitalPerLevel * Unit, pnl |-> 0, trades |-> 0 ]
    IN
    IF availableForGrid < totalCapitalNeeded THEN g
    ELSE [g EXCEPT !.tokens = IF k = 0 THEN Append(@, tokenGrid)
                              ELSE [@ EXCEPT ![k] = tokenGrid],
                   !.capitalAllocated = @ + totalCapitalNeeded]

\* for (const token of gridCandidates) setupGrid(token.mint, token.token, token.price)
RECURSIVE setupGrids(_, _)
setupGrids(g, gridCandidates) ==
    IF gridCandidates = << >> THEN g
    ELSE setupGrids(setupGrid(g, Head(gridCandidates).mint, Head(gridCandidates).price),
                    Tail(gridCandidates))

\* isGoodGridCandidate(token): liquidity floor, ceiling of the 24h change,
\* volume floor
minLiquidity == 2000000
maxVolatility24h == 8
minVolume24h == 500000

isGoodGridCandidate(token) ==
    /\ token.liquidity >= minLiquidity
    /\ (IF token.priceChange24h < 0 THEN -token.priceChange24h
        ELSE token.priceChange24h) <= maxVolatility24h
    /\ token.volume24h >= minVolume24h

\* .sort((a, b) => b.liquidity - a.liquidity): highest liquidity first, equal
\* ones in the order they came
RECURSIVE sortByLiquidity(_)
sortByLiquidity(tokens) ==
    IF tokens = << >> THEN << >>
    ELSE LET rest == sortByLiquidity(SubSeq(tokens, 1, Len(tokens) - 1))
             last == tokens[Len(tokens)]
             IsBefore(x) == x.liquidity >= last.liquidity
             IsAfter(x) == x.liquidity < last.liquidity
         IN
         SelectSeq(rest, IsBefore) \o <<last>> \o SelectSeq(rest, IsAfter)

\* a gridScanLoop that sets up a grid for every new good candidate
gridScanLoopUnsliced(g, candidates) ==
    LET IsNewAndGood(t) == isGoodGridCandidate(t) /\ tokenIndex(g, t.mint) = 0 IN
    setupGrids(g, sortByLiquidity(SelectSeq(candidates, IsNewAndGood)))

\* gridScanLoop(candidates)
gridScanLoop(g, candidates) ==
    LET activeCount == Cardinality({k \in 1..Len(g.tokens) : g.tokens[k].active})
        IsNewAndGood(t) == isGoodGridCandidate(t) /\ tokenIndex(g, t.mint) = 0
        gridCandidates == sortByLiquidity(SelectSeq(candidates, IsNewAndGood))
    IN
    IF activeCount >= maxGridTokens THEN g
    ELSE setupGrids(g, SubSeq(gridCandidates, 1,
                              Min(Len(gridCandidates), maxGridTokens - activeCount)))

\* the candidates of a scan that isGoodGridCandidate accepts: distinct mints,
\* any order, all of the same liquidity
GridCandidateLists(e) ==
    { c \in UNION {[1..n -> [mint : e.mints, price : e.candidatePrices,
                             liquidity : {minLiquidity}, priceChange24h : {0},
                             volume24h : {minVolume24h}]] :
                      n \in 0..Cardinality(e.mints)} :
        \A i, j \in 1..Len(c) : i # j => c[i].mint # c[j].mint }

\* a findGridLevel whose sell level is the buy level itself
findGridLevelSame(price, gridLevels) ==
    LET below == {k \in 1..Len(gridLevels) : gridLevels[k] <= price * 100}
        i == IF below = {} THEN 0 ELSE CHOOSE k \in below : \A l \in below : l <= k
    IN
    [ buyLevel |-> IF i = 0 THEN 0 ELSE gridLevels[i],
      sellLevel |-> IF i = 0 THEN 0 ELSE gridLevels[i] ]

\* findGridLevel(price, gridLevels): null is kept as 0, both are falsy
findGridLevel(price, gridLevels) ==
    LET below == {k \in 1..Len(gridLevels) : gridLevels[k] <= price * 100}
        i == IF below = {} THEN 0 ELSE CHOOSE k \in below : \A l \in below : l <= k
    IN
    [ buyLevel |-> IF i = 0 THEN 0 ELSE gridLevels[i],
      sellLevel |-> IF i = 0 \/ i = Len(gridLevels) THEN 0 ELSE gridLevels[i + 1] ]

\* gridLoop's for loop at the mints `todo`: checkGrid returns at once for a grid
\* that is no longer active, and suspends in getTokenPrice for the first active one
RECURSIVE gridNext(_, _)
gridNext(g, todo) ==
    IF todo = << >> THEN GridIdle
    ELSE IF g.tokens[tokenIndex(g, Head(todo))].active
    THEN [GridIdle EXCEPT !.pc = "price", !.todo = todo]
    ELSE gridNext(g, Tail(todo))

\* checkGrid from index `from` of its sell loop (downwards) to its next
\* suspension: in executeSell for a filled buy whose sell level is reached, in
\* executeBuy when the price crossed down through a free level, or its return.
\* An index beyond the end of filledBuys reads undefined, and buy.sellLevel
\* throws: gridLoop catches the error and goes on with the next mint.
checkFrom(g, gc, from) ==
    LET tokenGrid == g.tokens[tokenIndex(g, Head(gc.todo))]
        hits == {i \in 1..Min(from, Len(tokenGrid.filledBuys)) :
                    gc.currentPrice * 100 >= tokenGrid.filledBuys[i].sellLevel}
        hit == CHOOSE i \in hits : \A j \in hits : j <= i
        lv == findGridLevel(gc.currentPrice, tokenGrid.gridLevels)
        crossedDown == /\ gc.prevPrice * 100 > lv.buyLevel
                       /\ gc.currentPrice * 100 * 1000 <= lv.buyLevel * 1002
        distance(b) == IF b.level >= lv.buyLevel THEN b.level - lv.buyLevel
                       ELSE lv.buyLevel - b.level
        alreadyFilled == \E j \in 1..Len(tokenGrid.filledBuys) :
                            distance(tokenGrid.filledBuys[j]) * 1000 < 5 * lv.buyLevel
        availableForGrid == gridMaxCapital * Unit - g.capitalAllocated
    IN
    IF from > Len(tokenGrid.filledBuys) THEN gridNext(g, Tail(gc.todo))
    ELSE IF hits # {}
    THEN [gc EXCEPT !.pc = "sell", !.i = hit, !.buy = tokenGrid.filledBuys[hit]]
    ELSE IF lv.buyLevel = 0 \/ lv.sellLevel = 0 THEN gridNext(g, Tail(gc.todo))
    ELSE IF crossedDown /\ ~alreadyFilled /\ availableForGrid >= tokenGrid.capitalPerLevel
    THEN [gc EXCEPT !.pc = "buy", !.i = 0, !.buy = GridIdle.buy,
                    !.buyLevel = lv.buyLevel, !.sellLevel = lv.sellLevel]
    ELSE gridNext(g, Tail(gc.todo))

----------------------------------------------------------------------------
\* index.js scanLoop

\* signals: the signals the for loop has still to go through, the current one first
ScanIdle ==
    [pc |-> "idle", signals |-> << >>, trend |-> "neutral", size |-> 0,
     openShorts |-> << >>, m |-> 0]

RevIdle == [pc |-> "idle", todo |-> << >>, currentPrice |-> 0, reason |-> ""]

NoCall == [op |-> "none"]

\* posId(), result.positionId: a fresh identifier
freshId(st) == st.tradeCount + 1

\* signals.slice(0, 3)
topSignals == 3

\* a signal loop without the trend filter
RECURSIVE longLoopUngated(_, _, _, _)
longLoopUngated(st, signals, trend, driftEnabled) ==
    IF signals = << >>
    THEN [pc |-> "end", signals |-> << >>, size |-> 0, st |-> st]
    ELSE LET recheck == canOpenPosition(st)
             signal == Head(signals)
         IN
         IF ~recheck.allowed
         THEN [pc |-> "end", signals |-> << >>, size |-> 0, st |-> recheck.st]
         ELSE IF hasPosition(st, signal.mint)
         THEN longLoopUngated(st, Tail(signals), trend, driftEnabled)
         ELSE LET sz == calculatePositionSize(st, signal.score) IN
              IF sz.size < dustFloor * Unit
              THEN longLoopUngated(sz.st, Tail(signals), trend, driftEnabled)
              ELSE [pc |-> "buy", signals |-> signals, size |-> sz.size, st |-> sz.st]

\* the for loop over the remaining signals up to its next await or its end:
\* [pc |-> "buy", signals, size, st] suspended in executeBuy for Head(signals),
\* or [pc |-> "end", st]
RECURSIVE longLoop(_, _, _, _)
longLoop(st, signals, trend, driftEnabled) ==
    IF signals = << >>
    THEN [pc |-> "end", signals |-> << >>, size |-> 0, st |-> st]
    ELSE LET recheck == canOpenPosition(st)
             signal == Head(signals)
         IN
         IF ~recheck.allowed
         THEN [pc |-> "end", signals |-> << >>, size |-> 0, st |-> recheck.st]
         ELSE IF hasPosition(st, signal.mint)
         THEN longLoop(st, Tail(signals), trend, driftEnabled)
         ELSE IF driftEnabled /\ trend = "downtrend" /\ signal.strategy = "meanReversion"
         THEN longLoop(st, Tail(signals), trend, driftEnabled)
         ELSE LET sz == calculatePositionSize(st, signal.score) IN
              IF sz.size < dustFloor * Unit
              THEN longLoop(sz.st, Tail(signals), trend, driftEnabled)
              ELSE [pc |-> "buy", signals |-> signals, size |-> sz.size, st |-> sz.st]

\* (state.positions || []).filter(p => p.strategy === 'driftShort')
IsDriftShort(p) == p.strategy = "driftShort"
openShortsOf(st) == SelectSeq(st.positions, IsDriftShort)

\* the for loop over markets from index m up to its next await or its end
RECURSIVE shortLoop(_, _, _, _)
shortLoop(openShorts, markets, m, maxShorts) ==
    IF m > Len(markets) THEN 0
    ELSE IF \E k \in 1..Len(openShorts) : openShorts[k].market = markets[m]
    THEN shortLoop(openShorts, markets, m + 1, maxShorts)
    ELSE IF Len(openShorts) >= maxShorts THEN 0
    ELSE m

\* the drift section from its start: the market index it suspends at, 0 if none
shortSection(st, trend, c) ==
    IF c.driftEnabled /\ trend = "downtrend" /\ Len(openShortsOf(st)) < c.maxShorts
    THEN shortLoop(openShortsOf(st), c.markets, 1, c.maxShorts)
    ELSE 0

\* a scanLoop that charges the size of a buy that did not succeed
scanFromCharging(st, sc, signals, c) ==
    LET paid == IF sc.pc = "buy" THEN deductCapital(st, sc.size) ELSE st
        r == longLoop(paid, signals, sc.trend, c.driftEnabled)
    IN
    IF r.pc = "buy"
    THEN [st |-> r.st,
          scan |-> [sc EXCEPT !.pc = "buy", !.signals = r.signals, !.size = r.size]]
    ELSE LET m == shortSection(r.st, sc.trend, c) IN
         IF m = 0 THEN [st |-> r.st, scan |-> ScanIdle]
         ELSE [st |-> r.st,
               scan |-> [ScanIdle EXCEPT !.pc = "openShort", !.trend = sc.trend,
                                         !.openShorts = openShortsOf(r.st), !.m = m]]

\* scanLoop from the top of the signal loop, with `signals` still to go through,
\* to its next suspension
scanFrom(st, sc, signals, c) ==
    LET r == longLoop(st, signals, sc.trend, c.driftEnabled) IN
    IF r.pc = "buy"
    THEN [st |-> r.st,
          scan |-> [sc EXCEPT !.pc = "buy", !.signals = r.signals, !.size = r.size]]
    ELSE LET m == shortSection(r.st, sc.trend, c) IN
         IF m = 0 THEN [st |-> r.st, scan |-> ScanIdle]
         ELSE [st |-> r.st,
               scan |-> [ScanIdle EXCEPT !.pc = "openShort", !.trend = sc.trend,
                                         !.openShorts = openShortsOf(r.st), !.m = m]]

\* scanLoop from the market loop at index m to its next suspension
shortsFrom(sc, m, c) ==
    LET n == shortLoop(sc.openShorts, c.markets, m, c.maxShorts) IN
    IF n = 0 THEN ScanIdle ELSE [sc EXCEPT !.pc = "openShort", !.m = n, !.size = 0]

longPosition(st, signal, size) ==
    LET sltp == calculateSLTP(signal.price, signal.strategy) IN
    [ id |-> freshId(st), mint |-> signal.mint, entryPrice |-> signal.price,
      usdcSpent |-> size, openedAt |-> 0,
      stopLoss |-> sltp.stopLoss, takeProfit |-> sltp.takeProfit,
      strategy |-> signal.strategy, market |-> "" ]

shortPosition(st, market, entryPrice, shortSize) ==
    [ id |-> freshId(st), mint |-> market, entryPrice |-> entryPrice,
      usdcSpent |-> shortSize, openedAt |-> 0,
      stopLoss   |-> entryPrice * (100 + driftStopLossPercent),
      takeProfit |-> entryPrice * (100 - driftTakeProfitPercent),
      strategy |-> "driftShort", market |-> market ]

\* scanLoop entered by its timer: the gate at cycle start, then await scanTokens()
ScanStart ==
    /\ scan.pc = "idle"
    /\ LET check == canOpenPosition(state) IN
       /\ state' = check.st
       /\ scan' = IF check.allowed THEN [ScanIdle EXCEPT !.pc = "scanTokens"] ELSE ScanIdle
    /\ UNCHANGED <<rev, rev2, cfg, env, ret, grid, gridc, gridc2, scan2>>

\* scanTokens() and detectSignals() answer; no candidates or no signals end the
\* cycle; with the grid enabled gridScanLoop(candidates), which never suspends,
\* runs in between
ScanTokensReturn ==
    /\ scan.pc = "scanTokens"
    /\ \E sigs \in SignalLists(env) :
         IF sigs = << >>
         THEN scan' = ScanIdle /\ state' = state
         ELSE IF cfg.driftEnabled
         THEN /\ scan' = [scan EXCEPT !.pc = "trend",
                                       !.signals = SubSeq(sigs, 1, Min(Len(sigs), topSignals))]
              /\ state' = state
         ELSE LET nx == scanFrom(state, scan, SubSeq(sigs, 1, Min(Len(sigs), topSignals)), cfg) IN
              scan' = nx.scan /\ state' = nx.st
    /\ IF cfg.gridEnabled
       THEN \E candidates \in GridCandidateLists(env) :
                grid' = gridScanLoop(grid, candidates)
       ELSE grid' = grid
    /\ UNCHANGED <<rev, rev2, cfg, env, ret, gridc, gridc2, scan2>>

\* getMarketTrend() answers
TrendReturn ==
    /\ scan.pc = "trend"
    /\ \E t \in env.trends :
         LET nx == scanFrom(state, [scan EXCEPT !.trend = t], scan.signals, cfg) IN
         scan' = nx.scan /\ state' = nx.st
    /\ UNCHANGED <<rev, rev2, cfg, env, ret, grid, gridc, gridc2, scan2>>

\* executeBuy() answers: on success the position is recorded and its cost deducted
BuyReturn ==
    /\ scan.pc = "buy"
    /\ \E success \in BOOLEAN :
         IF success
         THEN /\ state.tradeCount < env.maxTrades
              /\ state' = deductCapital(
                            addPosition(state,
                                longPosition(state, Head(scan.signals), scan.size)),
                            scan.size)
              /\ scan' = [scan EXCEPT !.pc = "sleepLong"]
         ELSE LET nx == scanFrom(state, scan, Tail(scan.signals), cfg) IN
              scan' = nx.scan /\ state' = nx.st
    /\ UNCHANGED <<rev, rev2, cfg, env, ret, grid, gridc, gridc2, scan2>>

\* sleep(1000) after a buy ends: the next signal
ScanSleepLongDone ==
    /\ scan.pc = "sleepLong"
    /\ LET nx == scanFrom(state, scan, Tail(scan.signals), cfg) IN
       scan' = nx.scan /\ state' = nx.st
    /\ UNCHANGED <<rev, rev2, cfg, env, ret, grid, gridc, gridc2, scan2>>

\* openShort() answers
OpenShortReturn ==
    /\ scan.pc = "openShort"
    /\ \E success \in BOOLEAN, entryPrice \in ShortEntryPrices, shortSize \in ShortSizes :
         IF success
         THEN /\ state.tradeCount < env.maxTrades
              /\ state' = deductCapital(
                            addPosition(state,
                                shortPosition(state, cfg.markets[scan.m], entryPrice,
                                              shortSize)),
                            shortSize)
              /\ scan' = [scan EXCEPT !.pc = "sleepShort"]
         ELSE /\ scan' = shortsFrom(scan, scan.m + 1, cfg)
              /\ state' = state
    /\ UNCHANGED <<rev, rev2, cfg, env, ret, grid, gridc, gridc2, scan2>>

\* sleep(1000) after a short ends: the next market
ScanSleepShortDone ==
    /\ scan.pc = "sleepShort"
    /\ scan' = shortsFrom(scan, scan.m + 1, cfg)
    /\ UNCHANGED <<state, rev, rev2, cfg, env, ret, grid, gridc, gridc2, scan2>>

----------------------------------------------------------------------------
\* index.js positionLoop

\* the review of one position at a price: SL/TP first, then the time stop
\* Date.now() - new Date(pos.openedAt).getTime() > timeStopMs
pastHorizon(pos) == pos.openedAt < 0

reviewShort(pos, currentPrice) ==
    IF currentPrice * 100 >= pos.stopLoss
    THEN [shouldClose |-> TRUE, reason |-> "SHORT_STOP_LOSS"]
    ELSE IF currentPrice * 100 <= pos.takeProfit
    THEN [shouldClose |-> TRUE, reason |-> "SHORT_TAKE_PROFIT"]
    ELSE IF pastHorizon(pos) /\ getShortPnl(pos, currentPrice) <= 0
    THEN [shouldClose |-> TRUE, reason |-> "TIME_STOP_24H"]
    ELSE [shouldClose |-> FALSE, reason |-> ""]

\* a long review whose time stop ignores the PnL
reviewLongAnyPnl(pos, currentPrice) ==
    LET chk == checkPosition(pos, currentPrice) IN
    IF ~chk.shouldClose /\ pastHorizon(pos)
    THEN [shouldClose |-> TRUE, reason |-> "TIME_STOP_24H"]
    ELSE chk

reviewLong(pos, currentPrice) ==
    LET chk == checkPosition(pos, currentPrice) IN
    IF ~chk.shouldClose /\ pastHorizon(pos) /\ currentPrice - pos.entryPrice <= 0
    THEN [shouldClose |-> TRUE, reason |-> "TIME_STOP_24H"]
    ELSE chk

reviewPosition(pos, currentPrice) ==
    IF pos.strategy = "driftShort" THEN reviewShort(pos, currentPrice)
    ELSE reviewLong(pos, currentPrice)

\* the proceeds handed to closePosition
proceedsOf(pos, currentPrice, received) ==
    IF pos.strategy = "driftShort"
    THEN pos.usdcSpent + getShortPnl(pos, currentPrice)
    ELSE IF Falsy(received) THEN MulRatio(pos.usdcSpent, currentPrice, pos.entryPrice)
    ELSE received

\* the for loop over the snapshot moves to its next position
revNext(todo) ==
    IF Len(todo) <= 1 THEN RevIdle ELSE [RevIdle EXCEPT !.pc = "price", !.todo = Tail(todo)]

\* positionLoop entered by its timer: snapshot of the open positions, first price lookup
PositionStart ==
    /\ rev.pc = "idle"
    /\ Len(state.positions) > 0
    /\ rev' = [RevIdle EXCEPT !.pc = "price", !.todo = state.positions]
    /\ UNCHANGED <<state, scan, rev2, cfg, env, ret, grid, gridc, gridc2, scan2>>

\* getTokenPrice() answers: nothing found skips the position
PriceReturn ==
    /\ rev.pc = "price"
    /\ \E p \in env.reviewPrices \cup {NoPrice} :
         IF p = NoPrice
         THEN rev' = revNext(rev.todo)
         ELSE LET d == reviewPosition(Head(rev.todo), p) IN
              rev' = IF d.shouldClose
                     THEN [rev EXCEPT !.pc = "sell", !.currentPrice = p, !.reason = d.reason]
                     ELSE [rev EXCEPT !.pc = "sleep", !.currentPrice = p]
    /\ UNCHANGED <<state, scan, rev2, cfg, env, ret, grid, gridc, gridc2, scan2>>

\* executeSell() / closeShort() answers: on success the position is closed
SellReturn ==
    /\ rev.pc = "sell"
    /\ \E success \in BOOLEAN, received \in SellProceeds :
         state' = IF success
                  THEN closePosition(state, Head(rev.todo).id, rev.currentPrice,
                                     proceedsOf(Head(rev.todo), rev.currentPrice, received),
                                     rev.reason)
                  ELSE state
    /\ rev' = [rev EXCEPT !.pc = "sleep", !.currentPrice = 0, !.reason = ""]
    /\ UNCHANGED <<scan, rev2, cfg, env, ret, grid, gridc, gridc2, scan2>>

\* sleep(500) ends: the next position
RevSleepDone ==
    /\ rev.pc = "sleep"
    /\ rev' = revNext(rev.todo)
    /\ UNCHANGED <<state, scan, rev2, cfg, env, ret, grid, gridc, gridc2, scan2>>

\* time passes: the k oldest open positions now lie past the time-stop horizon
agedIds(positions, k) == {positions[j].id : j \in 1..k}

aged(positions, ids) ==
    [j \in 1..Len(positions) |->
        IF positions[j].id \in ids THEN [positions[j] EXCEPT !.openedAt = -1]
        ELSE positions[j]]

Tick ==
    /\ \E k \in 1..Len(state.positions) :
         /\ state.positions[k].openedAt = 0
         /\ state' = [state EXCEPT !.positions = aged(@, agedIds(state.positions, k))]
         /\ rev' = [rev EXCEPT !.todo = aged(@, agedIds(state.positions, k))]
         /\ rev2' = [rev2 EXCEPT !.todo = aged(@, agedIds(state.positions, k))]
    /\ UNCHANGED <<scan, cfg, env, ret, grid, gridc, gridc2, scan2>>

----------------------------------------------------------------------------
----------------------------------------------------------------------------
\* config.grid.enabled is off unless a specification turns it on
DefaultConfig ==
    [ driftEnabled |-> TRUE, markets |-> <<"SOL-PERP">>, maxShorts |-> defaultMaxShorts,
      gridEnabled |-> FALSE, levels |-> gridLevelCount ]

DefaultEnv ==
    [ mints |-> Mints, strategies |-> Strategies, candidatePrices |-> CandidatePrices,
      trends |-> Trends, reviewPrices |-> ReviewPrices, maxTrades |-> MaxTrades ]

Init ==
    /\ state = DEFAULT_STATE
    /\ scan = ScanIdle
    /\ scan2 = ScanIdle
    /\ rev = RevIdle
    /\ rev2 = RevIdle
    /\ grid = NoGrid
    /\ gridc = GridIdle
    /\ gridc2 = GridIdle
    /\ cfg = DefaultConfig
    /\ env = DefaultEnv
    /\ ret = NoCall

Next ==
    \/ ScanStart
    \/ ScanTokensReturn
    \/ TrendReturn
    \/ BuyReturn
    \/ ScanSleepLongDone
    \/ OpenShortReturn
    \/ ScanSleepShortDone
    \/ PositionStart
    \/ PriceReturn
    \/ SellReturn
    \/ RevSleepDone
    \/ Tick

Spec == Init /\ [][Next]_vars

\* candidates whose pair carries no priceUsd: parseFloat(pair.priceUsd || 0) is 0
AnyCandidatePrices == {0, 100}

InitAnyPrice ==
    /\ state = DEFAULT_STATE
    /\ scan = ScanIdle
    /\ scan2 = ScanIdle
    /\ rev = RevIdle
    /\ rev2 = RevIdle
    /\ grid = NoGrid
    /\ gridc = GridIdle
    /\ gridc2 = GridIdle
    /\ cfg = DefaultConfig
    /\ env = [DefaultEnv EXCEPT !.candidatePrices = AnyCandidatePrices]
    /\ ret = NoCall

SpecAnyPrice == InitAnyPrice /\ [][Next]_vars

\* bound of the trades in the runs with three candidates
MaxTradesHedge == 4

HedgeMints == {"A", "B", "C"}

\* three candidates in a falling market, steady prices: every position stays
\* open until its time stop
InitHedge ==
    /\ state = DEFAULT_STATE
    /\ scan = ScanIdle
    /\ scan2 = ScanIdle
    /\ rev = RevIdle
    /\ rev2 = RevIdle
    /\ grid = NoGrid
    /\ gridc = GridIdle
    /\ gridc2 = GridIdle
    /\ cfg = DefaultConfig
    /\ env = [ mints |-> HedgeMints, strategies |-> {"momentum"},
               candidatePrices |-> CandidatePrices, trends |-> {"downtrend"},
               reviewPrices |-> CandidatePrices, maxTrades |-> MaxTradesHedge ]
    /\ ret = NoCall

SpecHedge == InitHedge /\ [][Next]_vars

\* review prices on both sides of every level of a position entered at 100
DenseReviewPrices == {0, 95, 100, 105, 200}

\* two drift markets and maxShorts 1, shorting on or off: one candidate, both
\* strategies, a falling or a flat market
InitShorts ==
    /\ state = DEFAULT_STATE
    /\ scan = ScanIdle
    /\ scan2 = ScanIdle
    /\ rev = RevIdle
    /\ rev2 = RevIdle
    /\ grid = NoGrid
    /\ gridc = GridIdle
    /\ gridc2 = GridIdle
    /\ \E enabled \in BOOLEAN :
         cfg = [DefaultConfig EXCEPT !.driftEnabled = enabled,
                                     !.markets = <<"SOL-PERP", "BTC-PERP">>,
                                     !.maxShorts = 1]
    /\ env = [ mints |-> {"A"}, strategies |-> Strategies,
               candidatePrices |-> CandidatePrices, trends |-> Trends,
               reviewPrices |-> CandidatePrices, maxTrades |-> MaxTrades + 1 ]
    /\ ret = NoCall

SpecShorts == InitShorts /\ [][Next]_vars

InitReview ==
    /\ state = DEFAULT_STATE
    /\ scan = ScanIdle
    /\ scan2 = ScanIdle
    /\ rev = RevIdle
    /\ rev2 = RevIdle
    /\ grid = NoGrid
    /\ gridc = GridIdle
    /\ gridc2 = GridIdle
    /\ cfg = DefaultConfig
    /\ env = [ mints |-> {"A"}, strategies |-> Strategies,
               candidatePrices |-> CandidatePrices, trends |-> Trends,
               reviewPrices |-> DenseReviewPrices, maxTrades |-> MaxTrades ]
    /\ ret = NoCall

SpecReview == InitReview /\ [][Next]_vars

\* the spec's end-to-end scenario: one momentum candidate at price 1.00 (100
\* hundredths), reviewed at 0.85 or at its entry price
ScenarioReviewPrices == {85, 100}

InitScenario ==
    /\ state = DEFAULT_STATE
    /\ scan = ScanIdle
    /\ scan2 = ScanIdle
    /\ rev = RevIdle
    /\ rev2 = RevIdle
    /\ grid = NoGrid
    /\ gridc = GridIdle
    /\ gridc2 = GridIdle
    /\ cfg = DefaultConfig
    /\ env = [ mints |-> {"A"}, strategies |-> {"momentum"},
               candidatePrices |-> CandidatePrices, trends |-> Trends,
               reviewPrices |-> ScenarioReviewPrices, maxTrades |-> MaxTrades ]
    /\ ret = NoCall

SpecScenario == InitScenario /\ [][Next]_vars

----------------------------------------------------------------------------
\* setInterval(positionLoop, ...) fires again while a review cycle is still
\* suspended: a second review cycle over its own snapshot

OverlapStart ==
    /\ rev2.pc = "idle"
    /\ rev.pc # "idle"
    /\ Len(state.positions) > 0
    /\ rev2' = [RevIdle EXCEPT !.pc = "price", !.todo = state.positions]
    /\ UNCHANGED <<state, scan, rev, cfg, env, ret, grid, gridc, gridc2, scan2>>

OverlapPriceReturn ==
    /\ rev2.pc = "price"
    /\ \E p \in env.reviewPrices \cup {NoPrice} :
         IF p = NoPrice
         THEN rev2' = revNext(rev2.todo)
         ELSE LET d == reviewPosition(Head(rev2.todo), p) IN
              rev2' = IF d.shouldClose
                      THEN [rev2 EXCEPT !.pc = "sell", !.currentPrice = p, !.reason = d.reason]
                      ELSE [rev2 EXCEPT !.pc = "sleep", !.currentPrice = p]
    /\ UNCHANGED <<state, scan, rev, cfg, env, ret, grid, gridc, gridc2, scan2>>

OverlapSellReturn ==
    /\ rev2.pc = "sell"
    /\ \E success \in BOOLEAN, received \in SellProceeds :
         state' = IF success
                  THEN closePosition(state, Head(rev2.todo).id, rev2.currentPrice,
                                     proceedsOf(Head(rev2.todo), rev2.currentPrice, received),
                                     rev2.reason)
                  ELSE state
    /\ rev2' = [rev2 EXCEPT !.pc = "sleep", !.currentPrice = 0, !.reason = ""]
    /\ UNCHANGED <<scan, rev, cfg, env, ret, grid, gridc, gridc2, scan2>>

OverlapSleepDone ==
    /\ rev2.pc = "sleep"
    /\ rev2' = revNext(rev2.todo)
    /\ UNCHANGED <<state, scan, rev, cfg, env, ret, grid, gridc, gridc2, scan2>>

\* review prices at which a position entered at 100 is closed or kept
OverlapReviewPrices == {0, 100}

InitOverlap ==
    /\ state = DEFAULT_STATE
    /\ scan = ScanIdle
    /\ scan2 = ScanIdle
    /\ rev = RevIdle
    /\ rev2 = RevIdle
    /\ grid = NoGrid
    /\ gridc = GridIdle
    /\ gridc2 = GridIdle
    /\ cfg = DefaultConfig
    /\ env = [ mints |-> {"A"}, strategies |-> {"momentum"},
               candidatePrices |-> CandidatePrices, trends |-> Trends,
               reviewPrices |-> OverlapReviewPrices, maxTrades |-> MaxTrades ]
    /\ ret = NoCall

NextOverlap ==
    \/ Next
    \/ OverlapStart
    \/ OverlapPriceReturn
    \/ OverlapSellReturn
    \/ OverlapSleepDone

SpecOverlap == InitOverlap /\ [][NextOverlap]_vars

----------------------------------------------------------------------------
\* grid.js gridLoop / checkGrid, removeGrid, and index.js heartbeat

\* the number of grid buys that can succeed
MaxGridTrades == 2

\* gridLoop entered by its timer: the active mints, then checkGrid of the first
GridLoopStart ==
    /\ gridc.pc = "idle"
    /\ LET IsActive(t) == t.active
           activeTokens == SelectSeq(grid.tokens, IsActive)
       IN
       /\ activeTokens # << >>
       /\ gridc' = gridNext(grid, [k \in 1..Len(activeTokens) |-> activeTokens[k].mint])
    /\ UNCHANGED <<state, scan, rev, rev2, grid, cfg, env, ret, gridc2, scan2>>

\* getTokenPrice() answers checkGrid: lastPrice is overwritten, then the sell
\* loop and the buy test run up to the next await
GridPriceReturn ==
    /\ gridc.pc = "price"
    /\ \E p \in env.reviewPrices \cup {NoPrice} :
         IF p = NoPrice
         THEN /\ gridc' = gridNext(grid, Tail(gridc.todo))
              /\ grid' = grid
         ELSE LET k == tokenIndex(grid, Head(gridc.todo))
                  g == [grid EXCEPT !.tokens[k].lastPrice = p]
                  gc == [gridc EXCEPT !.currentPrice = p,
                                      !.prevPrice = grid.tokens[k].lastPrice]
              IN
              /\ grid' = g
              /\ gridc' = checkFrom(g, gc, Len(g.tokens[k].filledBuys))
    /\ UNCHANGED <<state, scan, rev, rev2, cfg, env, ret, gridc2, scan2>>

\* executeSell() answers checkGrid: on success the filled buy is removed and
\* the grid totals and capitalAllocated are updated; then the loop goes on
GridSellReturn ==
    /\ gridc.pc = "sell"
    /\ \E success \in BOOLEAN, received \in SellProceeds :
         LET k == tokenIndex(grid, Head(gridc.todo))
             tokenGrid == grid.tokens[k]
             buy == gridc.buy
             usdcReceived == IF Falsy(received)
                             THEN MulRatio(buy.usdcSpent, gridc.currentPrice * 100, buy.level)
                             ELSE received
             pnl == Sub(usdcReceived, buy.usdcSpent)
             returned == IF grid.capitalAllocated - buy.usdcSpent > 0
                         THEN grid.capitalAllocated - buy.usdcSpent ELSE 0
             g == IF success
                  THEN [grid EXCEPT
                          !.tokens[k] = [@ EXCEPT !.filledBuys =
                                                      IF gridc.i > Len(@) THEN @
                                                      ELSE splice(@, gridc.i),
                                                  !.pnl = Add(@, pnl),
                                                  !.trades = @ + 1],
                          !.totalPnl = Add(@, pnl),
                          !.totalTrades = @ + 1,
                          !.capitalAllocated = returned + tokenGrid.capitalPerLevel]
                  ELSE grid
         IN
         /\ grid' = g
         /\ gridc' = checkFrom(g, gridc, gridc.i - 1)
    /\ UNCHANGED <<state, scan, rev, rev2, cfg, env, ret, gridc2, scan2>>

\* executeBuy() answers checkGrid: on success the filled buy is recorded with
\* its sell level and capitalPerLevel is added to capitalAllocated
GridBuyReturn ==
    /\ gridc.pc = "buy"
    /\ \E success \in BOOLEAN :
         LET k == tokenIndex(grid, Head(gridc.todo))
             tokenGrid == grid.tokens[k]
             filledBuy == [level |-> gridc.buyLevel, sellLevel |-> gridc.sellLevel,
                           usdcSpent |-> tokenGrid.capitalPerLevel]
         IN
         IF success
         THEN /\ grid.totalTrades + Len(tokenGrid.filledBuys) < MaxGridTrades
              /\ grid' = [grid EXCEPT
                            !.tokens[k].filledBuys = Append(@, filledBuy),
                            !.capitalAllocated = @ + tokenGrid.capitalPerLevel]
         ELSE grid' = grid
    /\ gridc' = gridNext(grid, Tail(gridc.todo))
    /\ UNCHANGED <<state, scan, rev, rev2, cfg, env, ret, gridc2, scan2>>

\* removeGrid(mint) for a mint that has a grid
RemoveGrid ==
    /\ \E k \in 1..Len(grid.tokens) :
         grid' = [grid EXCEPT !.tokens[k].active = FALSE]
    /\ UNCHANGED <<state, scan, rev, rev2, gridc, cfg, env, ret, gridc2, scan2>>

\* heartbeat entered by its timer: portfolioCheck()'s summary
Heartbeat ==
    /\ ret' = [op |-> "portfolioCheck",
               result |-> [capital |-> state.capitalUsdc,
                           openPositions |-> Len(state.positions),
                           killSwitch |-> state.killSwitchTriggered]]
    /\ UNCHANGED <<state, scan, rev, rev2, grid, gridc, cfg, env, gridc2, scan2>>

\* a run with config.grid.enabled: one token that can trade, prices on three
\* neighbouring grid levels of a grid set up at 100
GridReviewPrices == {0, 98, 100}

InitGrid ==
    /\ state = DEFAULT_STATE
    /\ scan = ScanIdle
    /\ scan2 = ScanIdle
    /\ rev = RevIdle
    /\ rev2 = RevIdle
    /\ grid = NoGrid
    /\ gridc = GridIdle
    /\ gridc2 = GridIdle
    /\ cfg = [DefaultConfig EXCEPT !.gridEnabled = TRUE]
    /\ env = [DefaultEnv EXCEPT !.mints = {"A"}, !.strategies = {"momentum"},
                                !.reviewPrices = GridReviewPrices, !.maxTrades = 1]
    /\ ret = NoCall

NextGrid ==
    \/ Next
    \/ GridLoopStart
    \/ GridPriceReturn
    \/ GridSellReturn
    \/ GridBuyReturn
    \/ RemoveGrid
    \/ Heartbeat

SpecGrid == InitGrid /\ [][NextGrid]_vars

----------------------------------------------------------------------------
\* Errors inside the cycles: an awaited call of scanLoop, positionLoop or
\* checkGrid rejects instead of answering

\* a cycle whose error nothing catches: the process ends
crashed(idle) == [idle EXCEPT !.pc = "exited"]

\* `catch (err) { writeAlert('ERROR', ...) }` around the body of scanLoop and
\* of positionLoop: the function returns and its timer calls it again
caught(idle) == idle

\* scanTokens, executeBuy or openShort rejects in scanLoop; getTokenPrice,
\* executeSell or closeShort rejects in positionLoop; getTokenPrice,
\* executeSell or executeBuy rejects in checkGrid, whose error gridLoop
\* catches for that mint before it goes on to the next.  ret keeps which
\* cycle failed and the number of trades made up to then.
CycleThrows ==
    /\ \/ /\ scan.pc \in {"scanTokens", "buy", "openShort"}
          /\ scan' = caught(ScanIdle)
          /\ ret' = [op |-> "error", cycle |-> "scan", tradeCount |-> state.tradeCount]
          /\ UNCHANGED <<rev, gridc>>
       \/ /\ rev.pc \in {"price", "sell"}
          /\ rev' = caught(RevIdle)
          /\ ret' = [op |-> "error", cycle |-> "review", tradeCount |-> state.tradeCount]
          /\ UNCHANGED <<scan, gridc>>
       \/ /\ gridc.pc \in {"price", "sell", "buy"}
          /\ gridc' = gridNext(grid, Tail(gridc.todo))
          /\ ret' = [op |-> "error", cycle |-> "grid", tradeCount |-> state.tradeCount]
          /\ UNCHANGED <<scan, rev>>
    /\ UNCHANGED <<state, grid, rev2, gridc2, scan2, cfg, env>>

NextErrors ==
    \/ Next
    \/ GridLoopStart
    \/ GridPriceReturn
    \/ GridSellReturn
    \/ GridBuyReturn
    \/ CycleThrows

SpecErrors == InitGrid /\ [][NextErrors]_vars

----------------------------------------------------------------------------
\* A second grid check cycle: setInterval calls gridLoop every checkIntervalMs
\* whether or not the previous call has returned (index.js main)

\* the steps of the second cycle, which are those of the first: its start
\* while the first is suspended, and the answers of getTokenPrice, executeSell
\* and executeBuy
GridOverlap ==
    /\ LET k == tokenIndex(grid, Head(gridc2.todo))
           tokenGrid == grid.tokens[k]
           IsActive(t) == t.active
           activeTokens == SelectSeq(grid.tokens, IsActive)
       IN
       \/ /\ gridc2.pc = "idle"
          /\ gridc.pc # "idle"
          /\ activeTokens # << >>
          /\ gridc2' = gridNext(grid, [j \in 1..Len(activeTokens) |-> activeTokens[j].mint])
          /\ grid' = grid
       \/ /\ gridc2.pc = "price"
          /\ \E p \in env.reviewPrices \cup {NoPrice} :
               IF p = NoPrice
               THEN /\ gridc2' = gridNext(grid, Tail(gridc2.todo))
                    /\ grid' = grid
               ELSE LET g == [grid EXCEPT !.tokens[k].lastPrice = p]
                        gc == [gridc2 EXCEPT !.currentPrice = p,
                                             !.prevPrice = tokenGrid.lastPrice]
                    IN
                    /\ grid' = g
                    /\ gridc2' = checkFrom(g, gc, Len(tokenGrid.filledBuys))
       \/ /\ gridc2.pc = "sell"
          /\ \E success \in BOOLEAN, received \in SellProceeds :
               LET buy == gridc2.buy
                   usdcReceived ==
                       IF Falsy(received)
                       THEN MulRatio(buy.usdcSpent, gridc2.currentPrice * 100, buy.level)
                       ELSE received
                   pnl == Sub(usdcReceived, buy.usdcSpent)
                   returned == IF grid.capitalAllocated - buy.usdcSpent > 0
                               THEN grid.capitalAllocated - buy.usdcSpent ELSE 0
                   g == IF success
                        THEN [grid EXCEPT
                                !.tokens[k] = [@ EXCEPT !.filledBuys =
                                                            IF gridc2.i > Len(@) THEN @
                                                            ELSE splice(@, gridc2.i),
                                                        !.pnl = Add(@, pnl),
                                                        !.trades = @ + 1],
                                !.totalPnl = Add(@, pnl),
                                !.totalTrades = @ + 1,
                                !.capitalAllocated = returned + tokenGrid.capitalPerLevel]
                        ELSE grid
               IN
               /\ grid' = g
               /\ gridc2' = checkFrom(g, gridc2, gridc2.i - 1)
       \/ /\ gridc2.pc = "buy"
          /\ \E success \in BOOLEAN :
               IF success
               THEN /\ grid.totalTrades + Len(tokenGrid.filledBuys) < MaxGridTrades
                    /\ grid' = [grid EXCEPT
                                  !.tokens[k].filledBuys =
                                      Append(@, [level |-> gridc2.buyLevel,
                                                 sellLevel |-> gridc2.sellLevel,
                                                 usdcSpent |-> tokenGrid.capitalPerLevel]),
                                  !.capitalAllocated = @ + tokenGrid.capitalPerLevel]
               ELSE grid' = grid
          /\ gridc2' = gridNext(grid, Tail(gridc2.todo))
    /\ UNCHANGED <<state, scan, rev, rev2, gridc, cfg, env, ret, scan2>>

\* a run of the grid strategy alone, configured with 3 levels so that two
\* grids fit into maxCapital: no candidate scores as a signal, two can be
\* gridded, and the prices lie on the levels 98 and 100 of a grid set up at 100
InitGridOverlap ==
    /\ state = DEFAULT_STATE
    /\ scan = ScanIdle
    /\ scan2 = ScanIdle
    /\ rev = RevIdle
    /\ rev2 = RevIdle
    /\ grid = NoGrid
    /\ gridc = GridIdle
    /\ gridc2 = GridIdle
    /\ cfg = [DefaultConfig EXCEPT !.gridEnabled = TRUE, !.levels = 3]
    /\ env = [DefaultEnv EXCEPT !.strategies = {}, !.reviewPrices = {98, 100}]
    /\ ret = NoCall

NextGridOverlap ==
    \/ ScanStart
    \/ ScanTokensReturn
    \/ GridLoopStart
    \/ GridPriceReturn
    \/ GridSellReturn
    \/ GridBuyReturn
    \/ RemoveGrid
    \/ GridOverlap

SpecGridOverlap == InitGridOverlap /\ [][NextGridOverlap]_vars

----------------------------------------------------------------------------
\* A second scan cycle: setInterval calls scanLoop every scanMs whether or not
\* the previous call has returned (index.js main)

\* the steps of the second cycle, which are those of the first: its start
\* while the first is suspended, and the answers of scanTokens, getMarketTrend,
\* executeBuy, openShort and the sleeps
ScanOverlap ==
    /\ \/ /\ scan2.pc = "idle"
          /\ scan.pc # "idle"
          /\ LET check == canOpenPosition(state) IN
             /\ state' = check.st
             /\ scan2' = IF check.allowed THEN [ScanIdle EXCEPT !.pc = "scanTokens"]
                         ELSE ScanIdle
          /\ grid' = grid
       \/ /\ scan2.pc = "scanTokens"
          /\ \E sigs \in SignalLists(env) :
               IF sigs = << >>
               THEN scan2' = ScanIdle /\ state' = state
               ELSE IF cfg.driftEnabled
               THEN /\ scan2' = [scan2 EXCEPT
                                    !.pc = "trend",
                                    !.signals = SubSeq(sigs, 1, Min(Len(sigs), topSignals))]
                    /\ state' = state
               ELSE LET nx == scanFrom(state, scan2,
                                       SubSeq(sigs, 1, Min(Len(sigs), topSignals)), cfg)
                    IN scan2' = nx.scan /\ state' = nx.st
          /\ IF cfg.gridEnabled
             THEN \E candidates \in GridCandidateLists(env) :
                      grid' = gridScanLoop(grid, candidates)
             ELSE grid' = grid
       \/ /\ scan2.pc = "trend"
          /\ \E t \in env.trends :
               LET nx == scanFrom(state, [scan2 EXCEPT !.trend = t], scan2.signals, cfg) IN
               scan2' = nx.scan /\ state' = nx.st
          /\ grid' = grid
       \/ /\ scan2.pc = "buy"
          /\ \E success \in BOOLEAN :
               IF success
               THEN /\ state.tradeCount < env.maxTrades
                    /\ state' = deductCapital(
                                  addPosition(state,
                                      longPosition(state, Head(scan2.signals), scan2.size)),
                                  scan2.size)
                    /\ scan2' = [scan2 EXCEPT !.pc = "sleepLong"]
               ELSE LET nx == scanFrom(state, scan2, Tail(scan2.signals), cfg) IN
                    scan2' = nx.scan /\ state' = nx.st
          /\ grid' = grid
       \/ /\ scan2.pc = "sleepLong"
          /\ LET nx == scanFrom(state, scan2, Tail(scan2.signals), cfg) IN
             scan2' = nx.scan /\ state' = nx.st
          /\ grid' = grid
       \/ /\ scan2.pc = "openShort"
          /\ \E success \in BOOLEAN, entryPrice \in ShortEntryPrices,
                shortSize \in ShortSizes :
               IF success
               THEN /\ state.tradeCount < env.maxTrades
                    /\ state' = deductCapital(
                                  addPosition(state,
                                      shortPosition(state, cfg.markets[scan2.m],
                                                    entryPrice, shortSize)),
                                  shortSize)
                    /\ scan2' = [scan2 EXCEPT !.pc = "sleepShort"]
               ELSE /\ scan2' = shortsFrom(scan2, scan2.m + 1, cfg)
                    /\ state' = state
          /\ grid' = grid
       \/ /\ scan2.pc = "sleepShort"
          /\ scan2' = shortsFrom(scan2, scan2.m + 1, cfg)
          /\ state' = state
          /\ grid' = grid
    /\ UNCHANGED <<scan, rev, rev2, gridc, gridc2, cfg, env, ret>>

\* one candidate, a falling or a flat market, steady prices
InitScanOverlap ==
    /\ state = DEFAULT_STATE
    /\ scan = ScanIdle
    /\ scan2 = ScanIdle
    /\ rev = RevIdle
    /\ rev2 = RevIdle
    /\ grid = NoGrid
    /\ gridc = GridIdle
    /\ gridc2 = GridIdle
    /\ cfg = DefaultConfig
    /\ env = [ mints |-> {"A"}, strategies |-> {"momentum"},
               candidatePrices |-> CandidatePrices, trends |-> Trends,
               reviewPrices |-> CandidatePrices, maxTrades |-> MaxTrades ]
    /\ ret = NoCall

NextScanOverlap ==
    \/ Next
    \/ ScanOverlap

SpecScanOverlap == InitScanOverlap /\ [][NextScanOverlap]_vars

----------------------------------------------------------------------------
\* The process ends and starts again (index.js shutdown, main; state.js loadState)

\* the process is killed right after a write of the state document and is
\* started again: loadState() reads the last document written and every cycle
\* is gone.  Each mutator of the store ends with saveState(), so at the end
\* of a step the document is `state`; inside the step of a succeeded
\* executeBuy or openShort the document of addPosition's saveState() is
\* written before deductCapital runs.
KilledAndRestarted ==
    /\ \E document \in
            {state}
            \cup (IF scan.pc = "buy" /\ state.tradeCount < env.maxTrades
                  THEN {addPosition(state,
                                    longPosition(state, Head(scan.signals), scan.size))}
                  ELSE {})
            \cup (IF scan.pc = "openShort" /\ state.tradeCount < env.maxTrades
                  THEN {addPosition(state,
                                    shortPosition(state, cfg.markets[scan.m], e, sz)) :
                            e \in ShortEntryPrices, sz \in ShortSizes}
                  ELSE {}) :
         state' = loadState([exists |-> TRUE, parses |-> TRUE, value |-> document]).state
    /\ scan' = ScanIdle
    /\ rev' = RevIdle
    /\ UNCHANGED <<rev2, grid, gridc, cfg, env, ret, gridc2, scan2>>

\* shutdown(signal): the timers are cleared, the state is saved and
\* process.exit(0) ends the process with whatever is suspended in it
Shutdown ==
    /\ scan.pc # "exited"
    /\ scan' = [ScanIdle EXCEPT !.pc = "exited"]
    /\ rev' = [RevIdle EXCEPT !.pc = "exited"]
    /\ UNCHANGED <<state, rev2, grid, gridc, cfg, env, ret, gridc2, scan2>>

NextLifecycle ==
    \/ Next
    \/ KilledAndRestarted
    \/ Shutdown

SpecLifecycle == Init /\ [][NextLifecycle]_vars

----------------------------------------------------------------------------
\* The Risk Manager's functions called directly, on stores a run can hold and
\* on arguments drawn from bounded sets; ret records the call.

\* bound of the entry prices tried
MaxEntryPrice == 150

\* capitalUsdc and totalPnl on both sides of the gate's thresholds; NaN and
\* Infinity are what a close of a position entered at price 0 leaves
RiskCapitals == {49999, 50000, 123456, 1000000, NaN, Infinity}
RiskPnls == {-300001, -300000, -299999, 125000, NaN}

riskPositions(n) ==
    [k \in 1..n |->
        [ id |-> k, mint |-> "A", entryPrice |-> 100, usdcSpent |-> 10 * Unit,
          openedAt |-> 0, stopLoss |-> 8500, takeProfit |-> 13000,
          strategy |-> "momentum", market |-> "" ]]

RiskStores ==
    { [DEFAULT_STATE EXCEPT !.capitalUsdc = c, !.totalPnl = t,
                            !.positions = riskPositions(n),
                            !.tradeCount = n, !.killSwitchTriggered = k] :
        c \in RiskCapitals, t \in RiskPnls, n \in 0..(maxPositions + 1), k \in BOOLEAN }

CallCanOpenPosition ==
    /\ LET r == canOpenPosition(state) IN
       /\ ret' = [op |-> "canOpenPosition", before |-> state, allowed |-> r.allowed,
                  reason |-> r.reason, maxSize |-> r.maxSize]
       /\ state' = r.st
    /\ UNCHANGED <<scan, rev, rev2, cfg, env, grid, gridc, gridc2, scan2>>

CallCalculatePositionSize ==
    /\ \E score \in 0..maxScore :
         LET r == calculatePositionSize(state, score) IN
         /\ ret' = [op |-> "calculatePositionSize", before |-> state, score |-> score,
                    size |-> r.size]
         /\ state' = r.st
    /\ UNCHANGED <<scan, rev, rev2, cfg, env, grid, gridc, gridc2, scan2>>

InitRisk ==
    /\ state \in RiskStores
    /\ scan = ScanIdle
    /\ scan2 = ScanIdle
    /\ rev = RevIdle
    /\ rev2 = RevIdle
    /\ grid = NoGrid
    /\ gridc = GridIdle
    /\ gridc2 = GridIdle
    /\ cfg = DefaultConfig
    /\ env = DefaultEnv
    /\ ret = NoCall

NextRisk ==
    \/ CallCanOpenPosition
    \/ CallCalculatePositionSize

SpecRisk == InitRisk /\ [][NextRisk]_vars

\* the positions checkPosition is tried on: longs as scanLoop builds them
CheckPositions ==
    { longPosition(DEFAULT_STATE,
                   [mint |-> "A", price |-> e, score |-> 80, strategy |-> s], 45 * Unit) :
        e \in {0, 100}, s \in Strategies }

CallCalculateSLTP ==
    /\ \E entryPrice \in 1..MaxEntryPrice, strategy \in Strategies :
         ret' = [op |-> "calculateSLTP", entryPrice |-> entryPrice, strategy |-> strategy,
                 result |-> calculateSLTP(entryPrice, strategy)]
    /\ UNCHANGED <<state, scan, rev, rev2, cfg, env, grid, gridc, gridc2, scan2>>

CallCheckPosition ==
    /\ \E position \in CheckPositions, currentPrice \in 0..(2 * MaxEntryPrice) :
         ret' = [op |-> "checkPosition", position |-> position,
                 currentPrice |-> currentPrice,
                 result |-> checkPosition(position, currentPrice)]
    /\ UNCHANGED <<state, scan, rev, rev2, cfg, env, grid, gridc, gridc2, scan2>>

NextLevels ==
    \/ CallCalculateSLTP
    \/ CallCheckPosition

SpecLevels == Init /\ [][NextLevels]_vars

\* bounds of the arguments calculateGridLevels is tried on
MaxBasePrice == 100
MaxSpreadPct == 3
MaxLevelCount == 3

\* calculateGridLevels called directly; a candidate's price, and so the base
\* price, can be 0 (normalizePair)
CallCalculateGridLevels ==
    /\ \E basePrice \in 0..MaxBasePrice, spreadPct \in 1..MaxSpreadPct,
          levels \in 1..MaxLevelCount :
         ret' = [op |-> "calculateGridLevels", basePrice |-> basePrice,
                 spreadPct |-> spreadPct, levels |-> levels,
                 result |-> calculateGridLevels(basePrice, spreadPct, levels)]
    /\ UNCHANGED <<state, scan, rev, rev2, grid, gridc, cfg, env, gridc2, scan2>>

NextGridLevels == CallCalculateGridLevels

SpecGridLevels == Init /\ [][NextGridLevels]_vars

\* gridScanLoop called directly, once, on a grid store that earlier scans and
\* removeGrid calls have left: grids of one level each for the first n of
\* three mints, any of them deactivated; the candidates are at most
\* MaxGridCandidates tokens of distinct mints, each failing none or one of the
\* three tests of isGoodGridCandidate

\* bound of the number of candidates handed to gridScanLoop
MaxGridCandidates == 3

InitGridScan ==
    /\ state = DEFAULT_STATE
    /\ scan = ScanIdle
    /\ scan2 = ScanIdle
    /\ rev = RevIdle
    /\ rev2 = RevIdle
    /\ cfg = [DefaultConfig EXCEPT !.gridEnabled = TRUE, !.levels = 1]
    /\ env = [DefaultEnv EXCEPT !.mints = {"A", "B", "C", "D"}, !.strategies = {}]
    /\ \E n \in 0..3, inactive \in SUBSET (1..3) :
         /\ inactive \subseteq 1..n
         /\ LET first == [k \in 1..n |->
                            [mint |-> <<"A", "B", "C">>[k], price |-> 100]]
                set == setupGrids(NoGrid, first)
            IN
            grid = [set EXCEPT !.tokens =
                       [k \in 1..n |-> [set.tokens[k] EXCEPT !.active = k \notin inactive]]]
    /\ gridc = GridIdle
    /\ gridc2 = GridIdle
    /\ ret = NoCall

CallGridScanLoop ==
    /\ ret = NoCall
    /\ \E candidates \in
            UNION {[1..n -> { [mint |-> m, price |-> 100, liquidity |-> q[1],
                               priceChange24h |-> q[2], volume24h |-> q[3]] :
                                 m \in env.mints,
                                 q \in { <<1999999, 0, 500000>>, <<2000000, 8, 500000>>,
                                         <<3000000, -8, 600000>>, <<3000000, -9, 500000>>,
                                         <<3000000, 0, 499999>> } }] :
                      n \in 0..MaxGridCandidates} :
         /\ \A i, j \in 1..Len(candidates) : i # j => candidates[i].mint # candidates[j].mint
         /\ ret' = [op |-> "gridScanLoop", candidates |-> candidates,
                    result |-> gridScanLoop(grid, candidates)]
    /\ UNCHANGED <<state, scan, rev, rev2, grid, gridc, cfg, env, gridc2, scan2>>

NextGridScan == CallGridScanLoop

SpecGridScan == InitGridScan /\ [][NextGridScan]_vars

\* getShortPnl and detectSignals called directly, once in a run; ret records
\* the call

\* bound of the number of candidates handed to detectSignals
MaxCandidates == 2

\* raw scores (in halves) on both sides of the threshold and of the clamp
RawScores == {NaN, -10, 68, 69, 160, 210}

\* usdcSpent of the shorts tried: the $20-30 range of scanLoop and the 50 of
\* the documented example
ShortPnlSizes == {20 * Unit, 25 * Unit, 30 * Unit, 50 * Unit}

CallGetShortPnl ==
    /\ ret = NoCall
    /\ \E entryPrice \in 1..MaxEntryPrice, currentPrice \in 0..MaxEntryPrice,
          usdcSpent \in ShortPnlSizes :
         LET shortPos == [entryPrice |-> entryPrice, usdcSpent |-> usdcSpent] IN
         ret' = [op |-> "getShortPnl", entryPrice |-> entryPrice,
                 currentPrice |-> currentPrice, usdcSpent |-> usdcSpent,
                 pnl |-> getShortPnl(shortPos, currentPrice),
                 pnlPercent |-> getShortPnlPercent(shortPos, currentPrice)]
    /\ UNCHANGED <<state, scan, rev, rev2, grid, gridc, cfg, env, gridc2, scan2>>

CallDetectSignals ==
    /\ ret = NoCall
    /\ \E candidates \in
            UNION {[1..n -> [mint : Mints, momentum : RawScores, meanReversion : RawScores]] :
                      n \in 0..MaxCandidates} :
         ret' = [op |-> "detectSignals", candidates |-> candidates,
                 result |-> detectSignals(candidates)]
    /\ UNCHANGED <<state, scan, rev, rev2, grid, gridc, cfg, env, gridc2, scan2>>

\* loadState called on a state file that is absent, unreadable, an object
\* without positions or without totalPnl, or a stored state
CallLoadState ==
    /\ ret = NoCall
    /\ \E exists \in BOOLEAN, parses \in BOOLEAN,
          value \in { [killSwitchTriggered |-> TRUE],
                      [positions |-> << >>, killSwitchTriggered |-> TRUE],
                      DEFAULT_STATE,
                      [DEFAULT_STATE EXCEPT !.capitalUsdc = 60 * Unit,
                                            !.totalPnl = -40 * Unit,
                                            !.killSwitchTriggered = TRUE],
                      [DEFAULT_STATE EXCEPT !.capitalUsdc = 80 * Unit,
                                            !.positions = riskPositions(1),
                                            !.tradeCount = 1] } :
         LET file == [exists |-> exists, parses |-> parses, value |-> value] IN
         ret' = [op |-> "loadState", file |-> file, result |-> loadState(file)]
    /\ UNCHANGED <<state, scan, rev, rev2, grid, gridc, cfg, env, gridc2, scan2>>

\* bounds of the calls of detectSignals in a row and of the clock
MaxScans == 3
MaxClock == 4

\* detectSignals called up to MaxScans times in a row, at times that do not
\* go back, on up to two candidates of distinct mints: ret holds the price
\* history before and after the last call
CallDetectSignalsAgain ==
    /\ ret = NoCall \/ (ret.op = "recordPrices" /\ ret.scans < MaxScans)
    /\ LET before == IF ret = NoCall THEN [m \in Mints |-> << >>] ELSE ret.result
           earliest == IF ret = NoCall THEN 0 ELSE ret.now
           scans == IF ret = NoCall THEN 0 ELSE ret.scans
       IN
       \E now \in earliest..MaxClock,
          candidates \in UNION {[1..n -> [mint : Mints, price : CandidatePrices]] :
                                   n \in 0..2} :
          /\ \A i, j \in 1..Len(candidates) :
                i # j => candidates[i].mint # candidates[j].mint
          /\ ret' = [op |-> "recordPrices", history |-> before, candidates |-> candidates,
                     now |-> now, scans |-> scans + 1,
                     result |-> recordPrices(before, candidates, now)]
    /\ UNCHANGED <<state, scan, rev, rev2, grid, gridc, cfg, env, gridc2, scan2>>

\* The trend module (trend.js): its cache and getMarketTrend.  Time is counted
\* in minutes.

\* CACHE_TTL_MS, 5 minutes
cacheTtl == 5

\* bound of the clock of the calls of getMarketTrend
MaxTrendClock == 11

\* cachedTrend = null
NoTrend == [trend |-> "null"]

\* the result on insufficient data and on an error
neutralResult == [trend |-> "neutral", currentPrice |-> 0, sma7d |-> 0, deviation |-> 0]

\* the answers of fetchPriceHistory: null, an exception, or a series of
\* prices, oldest first (the sums are multiples of the lengths)
FetchAnswers ==
    {[kind |-> "null"], [kind |-> "throws"]}
      \cup {[kind |-> "prices", prices |-> p] :
                p \in {<<100, 100>>, <<100, 100, 100>>, <<80, 100, 120>>,
                       <<120, 100, 80>>, <<100, 100, 103>>}}

\* the two callers that can be inside getMarketTrend at a time, the scan
\* cycle and the scan cycle the timer starts over it
TrendCallers == {1, 2}

\* the module before the first call
TrendModuleLoaded ==
    [op |-> "getMarketTrend", cachedTrend |-> NoTrend, cacheTimestamp |-> 0, clock |-> 0,
     pending |-> [c \in TrendCallers |-> -1], step |-> [kind |-> "none"],
     returned |-> NoTrend]

\* the test `cachedTrend && (now - cacheTimestamp) <= CACHE_TTL_MS`
cacheFreshInclusive(cachedTrend, cacheTimestamp, now) ==
    cachedTrend # NoTrend /\ now - cacheTimestamp <= cacheTtl

\* the test `cachedTrend && (now - cacheTimestamp) < CACHE_TTL_MS`
cacheFresh(cachedTrend, cacheTimestamp, now) ==
    cachedTrend # NoTrend /\ now - cacheTimestamp < cacheTtl

\* the classification of a series of at least 3 prices: deviation =
\* (currentPrice - sma7d) / sma7d * 100, uptrend above 3, downtrend below -3
RECURSIVE sumPrices(_)
sumPrices(prices) == IF prices = << >> THEN 0 ELSE Head(prices) + sumPrices(Tail(prices))

classifyTrend(prices) ==
    LET currentPrice == prices[Len(prices)]
        sma7d == sumPrices(prices) \div Len(prices)
        \* deviation in hundredths of a percent
        deviation == RoundDiv((currentPrice - sma7d) * 10000, sma7d)
    IN [trend |-> IF deviation > 300 THEN "uptrend"
                  ELSE IF deviation < -300 THEN "downtrend" ELSE "neutral",
        currentPrice |-> currentPrice, sma7d |-> sma7d, deviation |-> deviation]

\* getMarketTrend() up to its await: a fresh cache entry is returned, otherwise
\* fetchPriceHistory is called and the caller is suspended
CallGetMarketTrend ==
    /\ ret = NoCall \/ ret.op = "getMarketTrend"
    /\ LET module == IF ret = NoCall THEN TrendModuleLoaded ELSE ret IN
       \E c \in TrendCallers, now \in module.clock..MaxTrendClock :
          /\ module.pending[c] = -1
          /\ ret' = IF cacheFresh(module.cachedTrend, module.cacheTimestamp, now)
                    THEN [module EXCEPT !.clock = now,
                                        !.step = [kind |-> "call", caller |-> c],
                                        !.returned = module.cachedTrend]
                    ELSE [module EXCEPT !.clock = now,
                                        !.step = [kind |-> "call", caller |-> c],
                                        !.returned = NoTrend,
                                        !.pending[c] = now]
    /\ UNCHANGED <<state, scan, rev, rev2, grid, gridc, cfg, env, gridc2, scan2>>

\* fetchPriceHistory answers and getMarketTrend runs to its return: without 3
\* prices and on an exception the neutral result is returned, otherwise the
\* classification is returned and cached with the time the call began at
FetchPriceHistoryReturn ==
    /\ ret.op = "getMarketTrend"
    /\ \E c \in TrendCallers, answer \in FetchAnswers :
          /\ ret.pending[c] # -1
          /\ LET usable == answer.kind = "prices" /\ Len(answer.prices) >= 3
                 result == IF usable THEN classifyTrend(answer.prices) ELSE neutralResult
             IN ret' = [ret EXCEPT !.pending[c] = -1,
                                   !.step = [kind |-> "fetched", caller |-> c,
                                             answer |-> answer],
                                   !.returned = result,
                                   !.cachedTrend = IF usable THEN result ELSE @,
                                   !.cacheTimestamp = IF usable THEN ret.pending[c] ELSE @]
    /\ UNCHANGED <<state, scan, rev, rev2, grid, gridc, cfg, env, gridc2, scan2>>

NextCalls ==
    \/ CallGetMarketTrend
    \/ FetchPriceHistoryReturn
    \/ CallDetectSignalsAgain
    \/ CallGetShortPnl
    \/ CallDetectSignals
    \/ CallLoadState

SpecCalls == Init /\ [][NextCalls]_vars

----------------------------------------------------------------------------
\* Properties of the running bot (Spec)

\* the ids of the open positions
openIds(st) == { st.positions[i].id : i \in 1..Len(st.positions) }

\* a step that adds a position to the store
PositionAdded == \E id \in openIds(state') : id \notin openIds(state)

\* the position a step adds: addPosition appends it
addedPosition == state'.positions[Len(state'.positions)]

\* C1: the kill switch is a one-way latch: once killSwitchTriggered is true
\* every step leaves it true, and canOpenPosition called on the store the
\* step leaves answers allowed = false and leaves the flag set, whatever
\* totalPnl has become.
KillSwitchLatch ==
    [][state.killSwitchTriggered =>
          /\ state'.killSwitchTriggered
          /\ ~canOpenPosition(state').allowed
          /\ canOpenPosition(state').st.killSwitchTriggered]_vars

\* the latch is set while the PnL is back above the kill-switch threshold
KillSwitchSetAfterRecovery ==
    /\ state.killSwitchTriggered
    /\ ~killThresholdReached(state)
    /\ state.closedTrades # << >>

\* C2: after the kill switch has been tripped no step adds a position,
\* long or drift short, to the store.
NoOpenAfterKillSwitch ==
    [][state.killSwitchTriggered => ~PositionAdded]_vars

\* a drift short is open that was opened after the kill switch tripped:
\* the switch is set, yet the short is the newest trade
ShortOpenedUnderKillSwitch ==
    /\ state.killSwitchTriggered
    /\ scan.pc = "sleepShort"

\* C5: whenever a step adds a position and deducts its capital, the gate
\* conditions hold in the store the step starts from: kill switch unset, PnL
\* percent above the threshold, fewer than maxPositions open, and capitalUsdc
\* at least the amount spent.
GateHoldsWhenSpending ==
    [][PositionAdded =>
          /\ ~state.killSwitchTriggered
          /\ ~killThresholdReached(state)
          /\ Len(state.positions) < maxPositions
          /\ Le(addedPosition.usdcSpent, state.capitalUsdc)]_vars

\* C4: in every reachable state the open positions, longs and drift shorts
\* together, number at most maxPositions.
OpenPositionsWithinMax == Len(state.positions) <= maxPositions

\* C8: every open position keeps its side's price ordering:
\* stopLoss < entryPrice < takeProfit for a long,
\* takeProfit < entryPrice < stopLoss for a drift short.
PriceOrdering ==
    \A i \in 1..Len(state.positions) :
        LET pos == state.positions[i] IN
        IF pos.strategy = "driftShort"
        THEN pos.takeProfit < pos.entryPrice * 100 /\ pos.entryPrice * 100 < pos.stopLoss
        ELSE pos.stopLoss < pos.entryPrice * 100 /\ pos.entryPrice * 100 < pos.takeProfit

\* the stop-loss or the take-profit condition of the position's side triggers
levelTriggers(pos, currentPrice) ==
    IF pos.strategy = "driftShort"
    THEN currentPrice * 100 >= pos.stopLoss \/ currentPrice * 100 <= pos.takeProfit
    ELSE currentPrice * 100 <= pos.stopLoss \/ currentPrice * 100 >= pos.takeProfit

\* the unrealized PnL the review looks at: the short's PnL, the long's price move
unrealizedPnl(pos, currentPrice) ==
    IF pos.strategy = "driftShort" THEN getShortPnl(pos, currentPrice)
    ELSE currentPrice - pos.entryPrice

\* C10: when a review obtains a price for a position, the position is
\* selected for closing with reason TIME_STOP_24H exactly when neither its
\* stop-loss nor its take-profit condition triggers, it has been open longer
\* than the horizon, and its unrealized PnL is <= 0.
TimeStopExactly ==
    [][(rev.pc = "price" /\ rev'.pc \in {"sell", "sleep"}) =>
          LET pos == Head(rev.todo)
              currentPrice == rev'.currentPrice
          IN (rev'.pc = "sell" /\ rev'.reason = "TIME_STOP_24H")
             <=> /\ ~levelTriggers(pos, currentPrice)
                 /\ pastHorizon(pos)
                 /\ unrealizedPnl(pos, currentPrice) <= 0]_vars

\* a short past the horizon, at a loss between its levels, goes to the time stop
ShortTimeStopped ==
    /\ rev.pc = "sell"
    /\ rev.reason = "TIME_STOP_24H"
    /\ Head(rev.todo).strategy = "driftShort"
    /\ rev.currentPrice > Head(rev.todo).entryPrice

----------------------------------------------------------------------------
\* Properties of the Risk Manager's functions (SpecRisk, SpecLevels)

\* the claim's four checks on a store, with JavaScript's comparisons
killSwitchSet(st) == st.killSwitchTriggered
pnlAtThreshold(st) ==
    /\ IsFinite(st.totalPnl)
    /\ st.totalPnl * 100 <= portfolioKillSwitchPercent * st.initialCapital
positionsFull(st) == Len(st.positions) >= maxPositions
capitalBelowFloor(st) == IsFinite(st.capitalUsdc) /\ st.capitalUsdc < dustFloor * Unit

\* C3: canOpenPosition answers with the denial of the first failing check in
\* the order (a) kill switch set, (b) PnL percent at or below the threshold,
\* which also sets the kill switch, (c) open positions >= maxPositions,
\* (d) capitalUsdc < 5; when none fails it allows with
\* maxSize = min(maxPositionSize, capitalUsdc).  Only (b) changes the store.
CheckOrder ==
    ret.op = "canOpenPosition" =>
        LET b == ret.before IN
        IF killSwitchSet(b)
        THEN ~ret.allowed /\ ret.reason = "KILL_SWITCH_ACTIVE" /\ state = b
        ELSE IF pnlAtThreshold(b)
        THEN /\ ~ret.allowed /\ ret.reason = "KILL_SWITCH_TRIGGERED"
             /\ state = [b EXCEPT !.killSwitchTriggered = TRUE]
        ELSE IF positionsFull(b)
        THEN ~ret.allowed /\ ret.reason = "MAX_POSITIONS" /\ state = b
        ELSE IF capitalBelowFloor(b)
        THEN ~ret.allowed /\ ret.reason = "INSUFFICIENT_CAPITAL" /\ state = b
        ELSE /\ ret.allowed /\ state = b
             /\ ret.maxSize = MathMin(maxPositionSize * Unit, b.capitalUsdc)

\* a store failing both (c) and (d) is denied for (c)
FullAndPoorDeniedAsFull ==
    /\ ret.op = "canOpenPosition"
    /\ ret.reason = "MAX_POSITIONS"
    /\ capitalBelowFloor(ret.before)

LevelsFormula ==
    ret.op = "calculateSLTP" =>
        LET E == ret.entryPrice IN
        IF ret.strategy = "momentum"
        THEN /\ ret.result.stopLoss = E * (100 + stopLossPercent)
             /\ ret.result.takeProfit = E * (100 + takeProfitPercent)
             /\ ret.result.stopLoss < E * 100
             /\ E * 100 < ret.result.takeProfit
        ELSE /\ ret.result.stopLoss = E * 92
             /\ ret.result.takeProfit = E * 110

\* mean-reversion levels were computed
MeanReversionLevels ==
    /\ ret.op = "calculateSLTP"
    /\ ret.strategy = "meanReversion"
    /\ ret.result.stopLoss # ret.entryPrice * (100 + stopLossPercent)

\* C9: checkPosition answers STOP_LOSS when price <= stopLoss, otherwise
\* TAKE_PROFIT when price >= takeProfit, otherwise shouldClose = false;
\* STOP_LOSS wins when both comparisons hold, and the call changes no state.
CheckPositionOrder ==
    [][ret'.op = "checkPosition" =>
          LET pos == ret'.position
              price == ret'.currentPrice
              res == ret'.result
          IN /\ price * 100 <= pos.stopLoss =>
                  res.shouldClose /\ res.reason = "STOP_LOSS"
             /\ (price * 100 > pos.stopLoss /\ price * 100 >= pos.takeProfit) =>
                  res.shouldClose /\ res.reason = "TAKE_PROFIT"
             /\ (price * 100 > pos.stopLoss /\ price * 100 < pos.takeProfit) =>
                  ~res.shouldClose
             /\ state' = state /\ scan' = scan /\ rev' = rev]_vars

\* both comparisons held and the answer was STOP_LOSS
BothLevelsHit ==
    /\ ret.op = "checkPosition"
    /\ ret.currentPrice * 100 <= ret.position.stopLoss
    /\ ret.currentPrice * 100 >= ret.position.takeProfit
    /\ ret.result.reason = "STOP_LOSS"

\* the open position with this id
openPosition(st, id) == st.positions[findIndex(st.positions, id)]

\* the open list without the position with this id, order kept
withoutId(positions, id) == SelectSeq(positions, LAMBDA q : q.id # id)

\* C12: a close of an open position is one step: the position leaves the
\* open list, a closed record with pnl = usdcReceived - usdcSpent is appended,
\* totalPnl grows by that pnl and capitalUsdc by usdcReceived, all in the step
\* in which the position leaves; for a short usdcReceived = usdcSpent + short pnl.
CloseIsOneStep ==
    [][\A id \in openIds(state) \ openIds(state') :
          LET pos == openPosition(state, id)
              rec == state'.closedTrades[Len(state'.closedTrades)]
          IN /\ state'.positions = withoutId(state.positions, id)
             /\ state'.closedTrades = Append(state.closedTrades, rec)
             /\ rec.id = id
             /\ rec.usdcSpent = pos.usdcSpent
             /\ rec.pnl = rec.usdcReceived - pos.usdcSpent
             /\ state'.totalPnl = state.totalPnl + rec.pnl
             /\ state'.capitalUsdc = state.capitalUsdc + rec.usdcReceived
             /\ pos.strategy = "driftShort" =>
                  rec.usdcReceived = pos.usdcSpent + getShortPnl(pos, rec.exitPrice)]_vars

\* a short was closed at a loss while a long is open
ShortClosedAtLoss ==
    /\ state.closedTrades # << >>
    /\ state.closedTrades[Len(state.closedTrades)].reason = "SHORT_STOP_LOSS"
    /\ state.closedTrades[Len(state.closedTrades)].pnl < 0
    /\ state.positions # << >>

----------------------------------------------------------------------------
\* Properties of the Portfolio Store under overlapping review cycles (SpecOverlap)

\* the ids of the closed records
closedIds(st) == { st.closedTrades[i].id : i \in 1..Len(st.closedTrades) }

\* C11: CLOSED is terminal and reached at most once.  In every step: an id
\* that leaves the open list gets its closed record appended in that step;
\* the records already in closedTrades stay, unchanged and in place; no
\* closed id is in the open list; no id has two closed records; and
\* closePosition for an id that is not open changes nothing.
ClosedIsTerminal ==
    [][/\ \A id \in openIds(state) \ openIds(state') :
            /\ Len(state'.closedTrades) = Len(state.closedTrades) + 1
            /\ state'.closedTrades[Len(state'.closedTrades)].id = id
       /\ Len(state'.closedTrades) >= Len(state.closedTrades)
       /\ SubSeq(state'.closedTrades, 1, Len(state.closedTrades)) = state.closedTrades
       /\ closedIds(state') \cap openIds(state') = {}
       /\ \A i, j \in 1..Len(state'.closedTrades) :
            state'.closedTrades[i].id = state'.closedTrades[j].id => i = j
       /\ \A id \in (1..(state'.tradeCount + 1)) \ openIds(state') :
            \A p \in env.reviewPrices :
                closePosition(state', id, p, 0, "STOP_LOSS") = state']_vars

\* the second review cycle is about to close a position the first has closed
\* already, while another position is open
ClosingAClosedPosition ==
    /\ rev2.pc = "sell"
    /\ Head(rev2.todo).id \in closedIds(state)
    /\ state.positions # << >>

----------------------------------------------------------------------------
\* The end-to-end scenario (SpecScenario)

----------------------------------------------------------------------------
\* Properties of the grid's functions (SpecGridLevels)

\* what calculateGridLevels returns apart from the strictness of the order:
\* 2*levels+1 prices, basePrice in the middle and basePrice*(1 +/- spreadPct/100*i)
\* at distance i from the middle; 94..106 for (100, 2, 3)
gridLevelsShape ==
    LET n == ret.levels
        r == ret.result
    IN /\ Len(r) = 2 * n + 1
       /\ \A i \in (0 - n)..n : r[n + 1 + i] = ret.basePrice * (100 + ret.spreadPct * i)
       /\ \A i \in 1..n : r[n + 1 - i] + r[n + 1 + i] = 2 * r[n + 1]
       /\ (ret.basePrice = 100 /\ ret.spreadPct = 2 /\ ret.levels = 3) =>
            r = <<9400, 9600, 9800, 10000, 10200, 10400, 10600>>

\* C19 as stated: the 2*levels+1 prices are in strictly ascending order for
\* every base price.
GridLevelsStrictlyAscending ==
    ret.op = "calculateGridLevels" =>
        /\ gridLevelsShape
        /\ \A k \in 1..(Len(ret.result) - 1) : ret.result[k] < ret.result[k + 1]

\* C19: calculateGridLevels returns exactly 2*levels+1 prices in ascending
\* order, strictly ascending when basePrice > 0, namely basePrice and
\* basePrice*(1 +/- spreadPct/100*i) for i = 1..levels, symmetric around
\* basePrice; for (100, 2, 3) exactly 94, 96, 98, 100, 102, 104, 106.
GridLevelsAscending ==
    ret.op = "calculateGridLevels" =>
        /\ gridLevelsShape
        /\ \A k \in 1..(Len(ret.result) - 1) :
             /\ ret.result[k] <= ret.result[k + 1]
             /\ ret.basePrice > 0 => ret.result[k] < ret.result[k + 1]

\* the spec's example was computed
GridLevelsExample ==
    /\ ret.op = "calculateGridLevels"
    /\ ret.basePrice = 100 /\ ret.spreadPct = 2 /\ ret.levels = 3
    /\ ret.result[1] = 9400 /\ ret.result[7] = 10600

----------------------------------------------------------------------------
\* Properties of a run with the grid strategy enabled (SpecGrid)

\* C14: capitalUsdc is written only by deductCapital and closePosition.  In
\* every step: if capitalUsdc changes, then either a position was added and
\* capitalUsdc fell by exactly its usdcSpent (deductCapital; addPosition itself
\* takes nothing), or a position left the open list and its closed record was
\* appended (closePosition); a step that sets the kill switch
\* (canOpenPosition, triggerKillSwitch), that reports the portfolio
\* (portfolioCheck) or that changes the grid store or the grid check cycle
\* (setupGrid, grid buy, grid sell, removeGrid) leaves capitalUsdc unchanged;
\* and a position that stays open keeps its usdcSpent.
CapitalFrame ==
    [][ /\ state'.capitalUsdc # state.capitalUsdc =>
              \/ /\ PositionAdded
                 /\ Len(state'.closedTrades) = Len(state.closedTrades)
                 /\ state'.capitalUsdc = state.capitalUsdc - addedPosition.usdcSpent
              \/ /\ ~PositionAdded
                 /\ \E id \in openIds(state) \ openIds(state') : id \in closedIds(state')
                 /\ Len(state'.closedTrades) = Len(state.closedTrades) + 1
        /\ PositionAdded => state'.capitalUsdc = state.capitalUsdc - addedPosition.usdcSpent
        /\ state'.killSwitchTriggered # state.killSwitchTriggered =>
              state'.capitalUsdc = state.capitalUsdc
        /\ ret' # ret => state'.capitalUsdc = state.capitalUsdc
        /\ (grid' # grid \/ gridc' # gridc) => state'.capitalUsdc = state.capitalUsdc
        /\ \A i \in 1..Len(state.positions), j \in 1..Len(state'.positions) :
              state.positions[i].id = state'.positions[j].id =>
                  state.positions[i].usdcSpent = state'.positions[j].usdcSpent
      ]_vars

\* a run in which a position was opened and closed, the kill
\* switch was set, the portfolio was reported, and a grid was set up, bought,
\* sold and was deactivated
CapitalFrameExercised ==
    /\ Len(state.closedTrades) > 0
    /\ state.capitalUsdc # state.initialCapital
    /\ state.killSwitchTriggered
    /\ ret.op = "portfolioCheck"
    /\ grid.totalTrades > 0
    /\ \E k \in 1..Len(grid.tokens) : ~grid.tokens[k].active

----------------------------------------------------------------------------
\* Properties of a process that is killed, shut down and restarted (SpecLifecycle)

\* the usdcSpent of the open positions, summed
RECURSIVE openCost(_)
openCost(positions) ==
    IF positions = << >> THEN 0
    ELSE Head(positions).usdcSpent + openCost(Tail(positions))

\* C15: every document written is consistent on its own: the state a process
\* holds, also right after a reload of the last document written before it
\* was killed, satisfies
\* capitalUsdc + sum of usdcSpent of the open positions = initialCapital + totalPnl.
ReloadedStateConsistent ==
    state.capitalUsdc + openCost(state.positions) = state.initialCapital + state.totalPnl

\* C16: a shutdown does not interrupt an in-flight cycle: no step ends the
\* process while a scan cycle or a review cycle is suspended at an external call.
ShutdownSparesInFlightCycle ==
    [][ /\ scan'.pc = "exited" => scan.pc \in {"idle", "exited"}
        /\ rev'.pc = "exited" => rev.pc \in {"idle", "exited"} ]_vars

----------------------------------------------------------------------------
\* Properties of getShortPnl and detectSignals (SpecCalls)

\* the scores of mint m that reach the threshold in the candidates of a call
qualifying(candidates, m) ==
    { sc \in { clampScore(candidates[i].momentum) : i \in 1..Len(candidates) }
               \cup { clampScore(candidates[i].meanReversion) : i \in 1..Len(candidates) } :
        /\ sc # NaN /\ sc >= signalThreshold
        /\ \E i \in 1..Len(candidates) :
              /\ candidates[i].mint = m
              /\ sc \in {clampScore(candidates[i].momentum),
                          clampScore(candidates[i].meanReversion)} }

ShortPnlFormula ==
    ret.op = "getShortPnl" =>
        LET diff == ret.entryPrice - ret.currentPrice
            Abs(x) == IF x < 0 THEN -x ELSE x
        IN
        /\ 2 * Abs(ret.pnl * ret.entryPrice - diff * ret.usdcSpent) <= ret.entryPrice
        /\ 2 * Abs(ret.pnlPercent * ret.entryPrice - diff * 100 * 100) <= ret.entryPrice
        /\ ret.pnl > 0 <=> ret.currentPrice < ret.entryPrice
        /\ ret.pnlPercent > 0 <=> ret.currentPrice < ret.entryPrice
        /\ (ret.entryPrice = 100 /\ ret.currentPrice = 90 /\ ret.usdcSpent = 50 * Unit) =>
              (ret.pnl = 5 * Unit /\ ret.pnlPercent = 10 * 100)

\* the documented example of getShortPnl
ShortPnlExample ==
    /\ ret.op = "getShortPnl"
    /\ ret.entryPrice = 100 /\ ret.currentPrice = 90 /\ ret.usdcSpent = 50 * Unit
    /\ ret.pnl = 5 * Unit /\ ret.pnlPercent = 1000

----------------------------------------------------------------------------
\* Properties of the grid store (SpecGrid)

\* C20: a full round trip leaves the grid allocation unchanged: capitalAllocated
\* after the sell of a filled buy equals capitalAllocated immediately before
\* that buy.  The allocation before the first buy is what setupGrid reserved,
\* capitalPerLevel * levels for every grid, so whenever every filled buy
\* has been sold again capitalAllocated is back at that reservation.
RoundTripNeutral ==
    (\A k \in 1..Len(grid.tokens) : grid.tokens[k].filledBuys = << >>) =>
        grid.capitalAllocated
            = Len(grid.tokens) * capitalPerLevel * gridLevelCount * Unit

----------------------------------------------------------------------------
\* Properties of the grid store with two grids and overlapping cycles (SpecGridOverlap)

\* C21: in every reachable state capitalAllocated is at most maxCapital.
GridCapitalWithinCap ==
    grid.capitalAllocated <= gridMaxCapital * Unit

\* C22: every filled buy of a token sits on the token's grid: its level is
\* one of gridLevels and its sellLevel is the next level, strictly above it
\* (null, kept as 0, if the level is the top one).
FilledBuysOnGrid ==
    \A k \in 1..Len(grid.tokens) :
        \A j \in 1..Len(grid.tokens[k].filledBuys) :
            LET levels == grid.tokens[k].gridLevels
                b == grid.tokens[k].filledBuys[j]
            IN
            \E i \in 1..Len(levels) :
                /\ levels[i] = b.level
                /\ IF i = Len(levels) THEN b.sellLevel = 0
                   ELSE b.sellLevel = levels[i + 1] /\ b.sellLevel > b.level

\* a grid set up at 100 with 3 levels holds a filled buy at 98 that sells at 100
FilledBuyAt98 ==
    \E k \in 1..Len(grid.tokens) :
        /\ Len(grid.tokens[k].gridLevels) = 7
        /\ \E j \in 1..Len(grid.tokens[k].filledBuys) :
              /\ grid.tokens[k].filledBuys[j].level = 9800
              /\ grid.tokens[k].filledBuys[j].sellLevel = 10000

\* C23: a filled buy is sold only by a grid check whose current price has
\* reached its sellLevel, and at most once: a step that counts a trade removes
\* exactly that filled buy and adds one PnL to the token's and the grid's
\* totals; an executeSell answer that counts no trade changes nothing.
FilledBuySoldOnce ==
    [][ /\ \A k \in 1..Len(grid.tokens) :
             LET before == grid.tokens[k]
                 after == grid'.tokens[k]
             IN
             after.trades # before.trades =>
                 /\ after.trades = before.trades + 1
                 /\ grid'.totalTrades = grid.totalTrades + 1
                 /\ Sub(grid'.totalPnl, grid.totalPnl) = Sub(after.pnl, before.pnl)
                 /\ \E i \in 1..Len(before.filledBuys) :
                       /\ after.filledBuys = splice(before.filledBuys, i)
                       /\ \E gc \in {gridc, gridc2} :
                             /\ gc.pc = "sell"
                             /\ gc.buy = before.filledBuys[i]
                             /\ gc.currentPrice * 100 >= before.filledBuys[i].sellLevel
        /\ (gridc.pc = "sell" /\ gridc' # gridc /\ grid'.totalTrades = grid.totalTrades)
               => grid' = grid
      ]_vars

\* C26: a step that sets up grids does so only within the capital left:
\* capitalPerLevel * levels for each new grid fits into maxCapital -
\* capitalAllocated and exactly that is reserved, each new grid is active with
\* no filled buys, and the grids there were stay as they are; a scan whose
\* gridScanLoop sets up no grid leaves the grid state unchanged.
SetupReservesWithinCap ==
    [][ LET n == Len(grid.tokens)
            n2 == Len(grid'.tokens)
            totalCapitalNeeded == capitalPerLevel * cfg.levels * Unit
        IN
        /\ n2 > n =>
               /\ (n2 - n) * totalCapitalNeeded
                      <= gridMaxCapital * Unit - grid.capitalAllocated
               /\ grid'.capitalAllocated
                      = grid.capitalAllocated + (n2 - n) * totalCapitalNeeded
               /\ \A k \in 1..n : grid'.tokens[k] = grid.tokens[k]
               /\ \A k \in (n + 1)..n2 :
                      /\ grid'.tokens[k].filledBuys = << >>
                      /\ grid'.tokens[k].active
                      /\ grid'.tokens[k].capitalPerLevel = capitalPerLevel * Unit
               /\ grid'.totalPnl = grid.totalPnl
               /\ grid'.totalTrades = grid.totalTrades
        /\ (scan.pc = "scanTokens" /\ scan'.pc # "scanTokens" /\ n2 = n) => grid' = grid
      ]_vars

\* two grids of 3 levels have been set up and fill maxCapital
TwoGridsSetUp ==
    /\ Len(grid.tokens) = 2
    /\ grid.capitalAllocated = gridMaxCapital * Unit
    /\ \A k \in 1..2 : grid.tokens[k].filledBuys = << >> /\ grid.tokens[k].active

\* C27: no token ever holds two filled buys within 0.5% of the same level.
NoDuplicateFills ==
    \A k \in 1..Len(grid.tokens) :
        LET fb == grid.tokens[k].filledBuys IN
        \A i, j \in 1..Len(fb) :
            i # j =>
                LET distance == IF fb[i].level >= fb[j].level
                                THEN fb[i].level - fb[j].level
                                ELSE fb[j].level - fb[i].level
                IN distance * 1000 >= 5 * fb[j].level

\* C28: once every filled buy of a token has been sold, a price answer that
\* crosses down through a grid level of the active grid leads to executeBuy:
\* the level is bought again, not refused for lack of grid capital.
LevelBoughtAgainAfterSell ==
    [][ (gridc.pc = "price" /\ gridc' # gridc) =>
            LET k == tokenIndex(grid, Head(gridc.todo))
                tokenGrid == grid.tokens[k]
                currentPrice == grid'.tokens[k].lastPrice
                lv == findGridLevel(currentPrice, tokenGrid.gridLevels)
            IN
            ( /\ tokenGrid.active
              /\ tokenGrid.trades > 0
              /\ tokenGrid.filledBuys = << >>
              /\ lv.buyLevel # 0
              /\ lv.sellLevel # 0
              /\ tokenGrid.lastPrice * 100 > lv.buyLevel
              /\ currentPrice * 100 * 1000 <= lv.buyLevel * 1002 )
            => gridc'.pc = "buy"
      ]_vars

\* C29: a step that deactivates a grid leaves its filled buys and
\* capitalAllocated as they are, and the filled buys of a deactivated grid can
\* still be sold: a grid check cycle that starts looks at every tracked token
\* that holds a filled buy, active or not.
DeactivatedGridStillExits ==
    [][ /\ \A k \in 1..Len(grid.tokens) :
              (grid.tokens[k].active /\ ~grid'.tokens[k].active) =>
                  /\ grid'.tokens[k].filledBuys = grid.tokens[k].filledBuys
                  /\ grid'.capitalAllocated = grid.capitalAllocated
        /\ (gridc.pc = "idle" /\ gridc'.pc # "idle") =>
               \A k \in 1..Len(grid.tokens) :
                   grid.tokens[k].filledBuys # << >> =>
                       \E j \in 1..Len(gridc'.todo) : gridc'.todo[j] = grid.tokens[k].mint
      ]_vars

----------------------------------------------------------------------------
\* Properties of failed executions (Spec)

\* C24: an executeBuy or openShort answer without success adds no position
\* and deducts no capital, and the scan goes on with a later signal or market;
\* an executeSell or closeShort answer without success leaves the position
\* open and capitalUsdc, totalPnl and closedTrades as they were.
FailedExecutionChangesNothing ==
    [][ /\ (scan.pc = "buy" /\ scan' # scan /\ scan'.pc # "sleepLong") =>
               /\ state'.positions = state.positions
               /\ state'.capitalUsdc = state.capitalUsdc
               /\ state'.totalPnl = state.totalPnl
               /\ state'.closedTrades = state.closedTrades
               /\ scan'.pc = "buy" =>
                      \E n \in 1..Len(scan.signals) :
                          scan'.signals = SubSeq(scan.signals, n + 1, Len(scan.signals))
        /\ (scan.pc = "openShort" /\ scan' # scan /\ scan'.pc # "sleepShort") =>
               /\ state' = state
               /\ scan'.pc = "openShort" => scan'.m > scan.m
        /\ (rev.pc = "sell" /\ rev'.pc = "sleep"
               /\ Len(state'.closedTrades) = Len(state.closedTrades)) =>
               /\ state' = state
               /\ \E i \in 1..Len(state'.positions) :
                      state'.positions[i].id = Head(rev.todo).id
      ]_vars

\* a sell was answered without success: the review sleeps before its next
\* position while the reviewed one is still open and nothing has been closed
SellFailedPositionOpen ==
    /\ rev.pc = "sleep"
    /\ rev.currentPrice = 0
    /\ state.closedTrades = << >>
    /\ \E i \in 1..Len(state.positions) : state.positions[i].id = Head(rev.todo).id

----------------------------------------------------------------------------
\* Properties of loadState called directly (SpecCalls)

\* C25 as stated: loadState starts from the fresh default, and writes it out,
\* when the state file is absent or cannot be parsed, and uses the stored
\* document verbatim otherwise.
LoadsVerbatimUnlessUnparseable ==
    ret.op = "loadState" =>
        IF ~ret.file.exists \/ ~ret.file.parses
        THEN /\ ret.result.state = DEFAULT_STATE
             /\ ret.result.file.value = DEFAULT_STATE
        ELSE /\ ret.result.state = ret.file.value
             /\ ret.result.file = ret.file

\* C25: loadState starts from the fresh default (capitalUsdc = initialCapital
\* = starting capital, no positions, no closed trades, totalPnl 0, kill switch
\* unset), and writes it out, when the state file is absent, cannot be parsed,
\* or parses to a value without positions or without totalPnl; otherwise it
\* uses the stored document verbatim, a set kill switch included.
LoadsVerbatimUnlessUnusable ==
    ret.op = "loadState" =>
        IF \/ ~ret.file.exists
           \/ ~ret.file.parses
           \/ "positions" \notin DOMAIN ret.file.value
           \/ "totalPnl" \notin DOMAIN ret.file.value
        THEN /\ ret.result.state = DEFAULT_STATE
             /\ ret.result.state.capitalUsdc = startingCapital * Unit
             /\ ret.result.state.initialCapital = startingCapital * Unit
             /\ ret.result.state.positions = << >>
             /\ ret.result.state.closedTrades = << >>
             /\ ret.result.state.totalPnl = 0
             /\ ~ret.result.state.killSwitchTriggered
             /\ ret.result.file.exists
             /\ ret.result.file.value = ret.result.state
        ELSE /\ ret.result.state = ret.file.value
             /\ ret.result.file = ret.file

\* loadState found a file that parses to an object without positions and
\* started fresh
LoadedObjectWithoutPositions ==
    /\ ret.op = "loadState"
    /\ ret.file.exists
    /\ ret.file.parses
    /\ "positions" \notin DOMAIN ret.file.value
    /\ ret.result.state = DEFAULT_STATE

----------------------------------------------------------------------------
\* Properties of gridScanLoop called directly (SpecGridScan)

\* C30: gridScanLoop leaves the grids there are as they are and appends at
\* most maxGridTokens - activeCount new ones; each new grid is for a
\* candidate that meets the liquidity floor, the ceiling of the 24h change
\* and the volume floor and whose mint had no grid state, active or not; the
\* new grids come in order of decreasing liquidity and no candidate left out
\* that could have been taken has a higher liquidity than one taken; the
\* number of active grids does not exceed maxGridTokens.
GridScanTakesBestCandidates ==
    ret.op = "gridScanLoop" =>
        LET before == grid.tokens
            after == ret.result.tokens
            n == Len(before)
            activeCount == Cardinality({k \in 1..n : before[k].active})
            acceptable(c) ==
                /\ c.liquidity >= 2000000
                /\ c.priceChange24h <= 8
                /\ c.priceChange24h >= -8
                /\ c.volume24h >= 500000
                /\ \A k \in 1..n : before[k].mint # c.mint
            candidateOf(mint) ==
                CHOOSE i \in 1..Len(ret.candidates) : ret.candidates[i].mint = mint
            taken == {candidateOf(after[k].mint) : k \in (n + 1)..Len(after)}
        IN
        /\ Len(after) >= n
        /\ SubSeq(after, 1, n) = before
        /\ Len(after) - n <= (IF activeCount >= maxGridTokens THEN 0
                              ELSE maxGridTokens - activeCount)
        /\ \A k \in (n + 1)..Len(after) :
              /\ \E i \in 1..Len(ret.candidates) : ret.candidates[i].mint = after[k].mint
              /\ acceptable(ret.candidates[candidateOf(after[k].mint)])
              /\ after[k].active
              /\ \A l \in (n + 1)..(k - 1) :
                     ret.candidates[candidateOf(after[l].mint)].liquidity
                        >= ret.candidates[candidateOf(after[k].mint)].liquidity
        /\ \A i \in 1..Len(ret.candidates) :
              (acceptable(ret.candidates[i]) /\ i \notin taken) =>
                  \A j \in taken :
                      ret.candidates[j].liquidity >= ret.candidates[i].liquidity
        /\ Cardinality({k \in 1..Len(after) : after[k].active}) <= maxGridTokens

\* with two active grids one slot is left: of two good candidates without
\* grid state the second, more liquid one got the grid
MoreLiquidCandidateTaken ==
    /\ ret.op = "gridScanLoop"
    /\ Len(grid.tokens) = 2
    /\ \A k \in 1..2 : grid.tokens[k].active
    /\ Len(ret.candidates) = 2
    /\ \A i \in 1..2 : isGoodGridCandidate(ret.candidates[i])
    /\ \A i \in 1..2 : tokenIndex(grid, ret.candidates[i].mint) = 0
    /\ ret.candidates[1].liquidity < ret.candidates[2].liquidity
    /\ Len(ret.result.tokens) = 3
    /\ ret.result.tokens[3].mint = ret.candidates[2].mint

----------------------------------------------------------------------------
\* Properties of the trend filter and of the drift shorts (SpecShorts)

ShortsWithinMaxShorts ==
    /\ Len(openShortsOf(state)) <= cfg.maxShorts
    /\ \A i, j \in 1..Len(state.positions) :
          ( /\ i # j
            /\ state.positions[i].strategy = "driftShort"
            /\ state.positions[j].strategy = "driftShort" ) =>
              state.positions[i].market # state.positions[j].market

\* C37: capitalUsdc is never negative.
CapitalNeverNegative ==
    ~Lt(state.capitalUsdc, 0)

----------------------------------------------------------------------------
\* Properties of the timers (SpecOverlap)

\* C35: no two cycles of the same kind are in flight at once.
CyclesNonReentrant ==
    /\ ~(scan.pc # "idle" /\ scan2.pc # "idle")
    /\ ~(rev.pc # "idle" /\ rev2.pc # "idle")
    /\ ~(gridc.pc # "idle" /\ gridc2.pc # "idle")

\* C36: at every suspension point capitalUsdc plus the usdcSpent of the open
\* positions equals initialCapital plus totalPnl.
CapitalConservedInMemory ==
    /\ IsFinite(state.capitalUsdc)
    /\ IsFinite(state.totalPnl)
    /\ state.capitalUsdc + openCost(state.positions)
          = state.initialCapital + state.totalPnl

\* a position was closed at a loss by a review cycle that is still in
\* flight, while the scan cycle is suspended too
ClosedWhileScanSuspended ==
    /\ scan.pc # "idle"
    /\ rev.pc # "idle"
    /\ Len(state.closedTrades) >= 1
    /\ state.totalPnl # 0

----------------------------------------------------------------------------
\* Properties of the store with overlapping scan cycles (SpecScanOverlap)

\* C39: no two open positions have the same mint.
OnePositionPerMint ==
    \A i, j \in 1..Len(state.positions) :
        i # j => state.positions[i].mint # state.positions[j].mint

----------------------------------------------------------------------------
\* Properties of the price history (SpecCalls)

\* C31: a call of detectSignals appends exactly one sample to the history of
\* every candidate, after which the samples older than the window are gone
\* from the front; the other histories stay as they are.
OneSamplePerCandidate ==
    ret.op = "recordPrices" =>
        \A m \in Mints :
            IF \E i \in 1..Len(ret.candidates) : ret.candidates[i].mint = m
            THEN LET token == ret.candidates[CHOOSE i \in 1..Len(ret.candidates) :
                                                ret.candidates[i].mint = m]
                     IsRecent(h) == h.ts >= ret.now - historyWindow
                 IN ret.result[m]
                      = Append(SelectSeq(ret.history[m], IsRecent),
                               [price |-> token.price, ts |-> ret.now])
            ELSE ret.result[m] = ret.history[m]

----------------------------------------------------------------------------
\* Properties of the cycles' error handling (SpecErrors)

====
